---------------------------- MODULE Spec2Model ----------------------------
(***************************************************************************)
(* A model of build.py (PHG-France): the conversion of the price workbook  *)
(* into data.json.                                                         *)
(*                                                                         *)
(* Text is a sequence of one-character strings (a name such as "EUR" or    *)
(* "e_acute" stands for the one character it names).  A cell value is a    *)
(* record: Null, IntCell, FloatCell or TextCell.  A float is a decimal     *)
(* with DecimalPlaces places, held as an integer number of units, plus    *)
(* the sign e of the error of the binary                                   *)
(* double that stands for it (-1: the double lies just below the decimal,  *)
(* 0: it is exact, 1: just above), which is what decides a rounding tie.   *)
(* Cells hold no booleans, dates or non-numeric text where the code calls  *)
(* int() or float(); rows are as wide as the layout the reader indexes.    *)
(***************************************************************************)
EXTENDS Integers, Sequences, FiniteSets, TLC

VARIABLES
    pc,                \* position of the run in build_data, or the function a specification applies
    fs,                \* the file system: excel/ and its files, data.json, photos/ sub-directories
    excel_path,        \* find_excel's result
    wb,                \* the workbook: its sheets in order
    structural,        \* the results of the five structural readers
    product_tabs,      \* detect_product_tabs' result
    tab_idx,           \* the index of the next tab of the loop over product_tabs
    data,              \* the document being assembled: an insertion-ordered list of [k, v]
    reads,             \* per tab of the loop so far: its tab_name, product_type, key and items
    call,              \* the arguments of the function applied
    ret                \* the results of the function applied

vars == <<pc, fs, excel_path, wb, structural, product_tabs, tab_idx, data, reads, call, ret>>

mainVars == <<fs, excel_path, wb, structural, product_tabs, tab_idx, data, reads>>

----------------------------------------------------------------------------
(* Bounds *)

MaxWhole == 12          \* the largest whole part of a price or weight
MaxZoneRows == 2        \* rows of a Zone.TFranco sheet
MaxZoneCells == 2       \* non-empty cells of a Zone.TFranco sheet
MaxListRows == 2        \* rows of a LISTES sheet
MaxTabSheets == 2       \* sheets of a workbook given to detect_product_tabs
MaxProductSheets == 2   \* sheets of the workbook of a run besides the structural ones
MaxNameLen == 4         \* characters of a generated tab name

----------------------------------------------------------------------------
(* Text *)

Digits == <<"0", "1", "2", "3", "4", "5", "6", "7", "8", "9">>

UpperCase == <<"A", "B", "C", "D", "E", "F", "G", "H", "I", "J", "K", "L", "M",
               "N", "O", "P", "Q", "R", "S", "T", "U", "V", "W", "X", "Y", "Z">>

LowerCase == <<"a", "b", "c", "d", "e", "f", "g", "h", "i", "j", "k", "l", "m",
               "n", "o", "p", "q", "r", "s", "t", "u", "v", "w", "x", "y", "z">>

\* the accented letters of the model, each one character
UpperAccented == <<"E_grave", "E_acute">>

LowerAccented == <<"e_grave", "e_acute">>

IsDigitChar(c) == \E i \in 1..Len(Digits) : Digits[i] = c

\* str.isdigit(): non-empty and every character a digit
IsDigit(s) == Len(s) > 0 /\ \A i \in 1..Len(s) : IsDigitChar(s[i])

LowerChar(c) ==
    LET upper == UpperCase \o UpperAccented
        lower == LowerCase \o LowerAccented
    IN  IF \E i \in 1..Len(upper) : upper[i] = c
        THEN lower[CHOOSE i \in 1..Len(upper) : upper[i] = c]
        ELSE c

\* str.lower()
Lower(s) == [i \in 1..Len(s) |-> LowerChar(s[i])]

\* str.startswith / str.endswith
StartsWith(s, p) == Len(s) >= Len(p) /\ SubSeq(s, 1, Len(p)) = p

EndsWith(s, p) == Len(s) >= Len(p) /\ SubSeq(s, Len(s) - Len(p) + 1, Len(s)) = p

IsSpace(c) == c = " "

RECURSIVE LStrip(_)
LStrip(s) == IF Len(s) > 0 /\ IsSpace(s[1]) THEN LStrip(Tail(s)) ELSE s

RECURSIVE RStrip(_)
RStrip(s) == IF Len(s) > 0 /\ IsSpace(s[Len(s)]) THEN RStrip(SubSeq(s, 1, Len(s) - 1)) ELSE s

\* str.strip()
Strip(s) == RStrip(LStrip(s))

RECURSIVE NatToStr(_)
NatToStr(n) == IF n < 10 THEN <<Digits[n + 1]>> ELSE NatToStr(n \div 10) \o <<Digits[(n % 10) + 1]>>

\* str(n) of an int
IntToStr(n) == IF n < 0 THEN <<"-">> \o NatToStr(-n) ELSE NatToStr(n)

----------------------------------------------------------------------------
(* Cell values and numbers *)

\* the decimals build.py rounds to: prices (clean_number's default) and weights
PriceDecimals == 2
WeightDecimals == 3

\* one place finer than the finest rounding
DecimalPlaces == WeightDecimals + 1

RECURSIVE Pow10(_)
Pow10(k) == IF k = 0 THEN 1 ELSE 10 * Pow10(k - 1)

FScale == Pow10(DecimalPlaces)

Null == [t |-> "null"]
IntCell(n) == [t |-> "int", n |-> n]
FloatCell(u, e) == [t |-> "float", u |-> u, e |-> e]
TextCell(s) == [t |-> "str", s |-> s]

IsNull(v) == v.t = "null"
IsNumber(v) == v.t \in {"int", "float"}

\* Python's truth value of a cell value: None, 0, 0.0 and "" are false
Truthy(v) ==
    CASE v.t = "null" -> FALSE
      [] v.t = "int" -> v.n # 0
      [] v.t = "float" -> v.u # 0
      [] v.t = "str" -> Len(v.s) > 0

\* float(v), in units
ToUnits(v) == IF v.t = "int" THEN v.n * FScale ELSE v.u

ErrSign(v) == IF v.t = "int" THEN 0 ELSE v.e

\* int(v) of a number: truncation toward zero
ToInt(v) ==
    IF v.t = "int" THEN v.n
    ELSE IF v.u >= 0 THEN v.u \div FScale ELSE -((-v.u) \div FScale)

\* round(f, decimals), in units: correctly rounded on the double's exact value,
\* so a decimal tie falls to the side the double lies on, to even when exact
RoundUnits(u, e, decimals) ==
    LET q == Pow10(DecimalPlaces - decimals)
        lo == u \div q
        r == u % q
        up == IF 2 * r > q THEN TRUE
              ELSE IF 2 * r < q THEN FALSE
              ELSE IF e > 0 THEN TRUE
              ELSE IF e < 0 THEN FALSE
              ELSE lo % 2 = 1
    IN  IF r = 0 THEN u ELSE (IF up THEN lo + 1 ELSE lo) * q

clean_number_float(val, decimals) ==
    IF IsNull(val) THEN Null
    ELSE FloatCell(RoundUnits(ToUnits(val), ErrSign(val), decimals), 0)

clean_number(val, decimals) ==
    IF IsNull(val) THEN Null
    ELSE LET f == RoundUnits(ToUnits(val), ErrSign(val), decimals)
         IN  IF f % FScale = 0 THEN IntCell(f \div FScale) ELSE FloatCell(f, 0)

\* cell_val on a raw cell value: text is stripped, empty text is None
cell_val(v) ==
    IF v.t = "str"
    THEN (IF Len(Strip(v.s)) > 0 THEN TextCell(Strip(v.s)) ELSE Null)
    ELSE v

\* the characters of the model in code point order
CodePointOrder ==
    <<" ", "'", "(", ")", "-", ".", "/">> \o Digits \o UpperCase \o <<"BACKSLASH", "_", "BACKTICK">>
    \o LowerCase \o UpperAccented \o LowerAccented \o <<"EUR">>

Rank(c) == CHOOSE i \in 1..Len(CodePointOrder) : CodePointOrder[i] = c

\* a < b on str: lexicographic on code points
RECURSIVE StrLess(_, _)
StrLess(a, b) ==
    IF Len(b) = 0 THEN FALSE
    ELSE IF Len(a) = 0 THEN TRUE
    ELSE IF a[1] = b[1] THEN StrLess(Tail(a), Tail(b))
    ELSE Rank(a[1]) < Rank(b[1])

\* sorted(S) of a set of str
RECURSIVE Sorted(_)
Sorted(S) ==
    IF S = {} THEN <<>>
    ELSE LET m == CHOOSE x \in S : \A y \in S \ {x} : StrLess(x, y)
         IN  <<m>> \o Sorted(S \ {m})

\* the digits of a fraction given in units, without trailing zeros, at least one
RECURSIVE FracDigitsStr(_, _)
FracDigitsStr(f, places) ==
    IF places = 1 THEN <<Digits[f + 1]>>
    ELSE LET p == Pow10(places - 1)
         IN  IF f % p = 0 THEN <<Digits[(f \div p) + 1]>>
             ELSE <<Digits[(f \div p) + 1]>> \o FracDigitsStr(f % p, places - 1)

\* str(v) of a cell value: the int's digits, the float's shortest repr, the text
PyStr(v) ==
    CASE v.t = "int" -> IntToStr(v.n)
      [] v.t = "float" ->
            LET a == IF v.u < 0 THEN -v.u ELSE v.u
            IN  (IF v.u < 0 THEN <<"-">> ELSE <<>>)
                \o NatToStr(a \div FScale) \o <<".">>
                \o FracDigitsStr(a % FScale, DecimalPlaces)
      [] v.t = "str" -> v.s
      [] v.t = "null" -> <<"N", "o", "n", "e">>

----------------------------------------------------------------------------
(* Python dicts and lists: a dict is its insertion-ordered list of [k, v] *)

HasKey(d, k) == \E i \in 1..Len(d) : d[i].k = k

Get(d, k) == d[CHOOSE i \in 1..Len(d) : d[i].k = k].v

Keys(d) == {d[i].k : i \in 1..Len(d)}

\* d[k] = v: an existing key keeps its place
DictSet(d, k, v) ==
    IF HasKey(d, k)
    THEN [i \in 1..Len(d) |-> IF d[i].k = k THEN [k |-> k, v |-> v] ELSE d[i]]
    ELSE Append(d, [k |-> k, v |-> v])

\* x in list
InList(l, x) == \E i \in 1..Len(l) : l[i] = x

----------------------------------------------------------------------------
(* The structural readers of Zone.TFranco and LISTES.  A sheet is the list of *)
(* its rows from row 2 on, a row the tuple of its raw cell values.            *)

ZoneColumns == 6

ZoneName(col_idx) == <<"Z", "o", "n", "e", " ">> \o IntToStr(col_idx + 1)

zone_dept_str_unpadded(dept) ==
    IF IsNumber(dept) THEN IntToStr(ToInt(dept)) ELSE PyStr(dept)

\* the department code of a Zone.TFranco cell
zone_dept_str(dept) ==
    LET dept_str == IF IsNumber(dept) THEN IntToStr(ToInt(dept)) ELSE PyStr(dept)
    IN  IF IsDigit(dept_str) /\ Len(dept_str) = 1 THEN <<"0">> \o dept_str ELSE dept_str

\* the cells from position p on, rows top to bottom and columns A to F in a row
RECURSIVE ZonesFrom(_, _, _)
ZonesFrom(rows, p, zones) ==
    IF p > Len(rows) * ZoneColumns THEN zones
    ELSE LET row == rows[((p - 1) \div ZoneColumns) + 1]
             col_idx == (p - 1) % ZoneColumns
             dept == cell_val(row[col_idx + 1])
         IN  IF IsNull(dept) THEN ZonesFrom(rows, p + 1, zones)
             ELSE ZonesFrom(rows, p + 1,
                            DictSet(zones, zone_dept_str(dept), ZoneName(col_idx)))

RECURSIVE ZonesFirstWins(_, _, _)
ZonesFirstWins(rows, p, zones) ==
    IF p > Len(rows) * ZoneColumns THEN zones
    ELSE LET row == rows[((p - 1) \div ZoneColumns) + 1]
             col_idx == (p - 1) % ZoneColumns
             dept == cell_val(row[col_idx + 1])
         IN  IF IsNull(dept) \/ HasKey(zones, zone_dept_str(dept))
             THEN ZonesFirstWins(rows, p + 1, zones)
             ELSE ZonesFirstWins(rows, p + 1,
                                 DictSet(zones, zone_dept_str(dept), ZoneName(col_idx)))

read_zones_transport_first_wins(rows) == ZonesFirstWins(rows, 1, <<>>)

read_zones_transport(rows) == ZonesFrom(rows, 1, <<>>)

\* the department code of a LISTES cell
listes_dept_str(dept) ==
    LET dept_str == IF IsNumber(dept) THEN IntToStr(ToInt(dept)) ELSE PyStr(dept)
    IN  IF IsDigit(dept_str) /\ Len(dept_str) = 1 THEN <<"0">> \o dept_str ELSE dept_str

type_order ==
    << <<"M", "o", "n", "u", "m", "e", "n", "t">>,
       <<"S", "e", "m", "e", "l", "l", "e">>,
       <<"A", "c", "c", "e", "s", "s", "o", "i", "r", "e">>,
       <<"U", "r", "n", "e">>,
       <<"G", "r", "a", "v", "u", "r", "e">>,
       <<"L", "i", "t", "h", "o">> >>

\* [t for t in order if t in types]
RECURSIVE FilterIn(_, _)
FilterIn(order, types) ==
    IF Len(order) = 0 THEN <<>>
    ELSE (IF order[1] \in types THEN <<order[1]>> ELSE <<>>) \o FilterIn(Tail(order), types)

\* types_list.append(t) for every t of rest
RECURSIVE append_all(_, _)
append_all(types_list, rest) ==
    IF Len(rest) = 0 THEN types_list
    ELSE append_all(Append(types_list, rest[1]), Tail(rest))

\* for t in rest: if t not in types_list: types_list.append(t)
RECURSIVE AppendMissing(_, _)
AppendMissing(types_list, rest) ==
    IF Len(rest) = 0 THEN types_list
    ELSE AppendMissing(IF InList(types_list, rest[1]) THEN types_list
                       ELSE Append(types_list, rest[1]),
                       Tail(rest))

\* the loop of read_listes over the rows from row i on
RECURSIVE ListesFrom(_, _, _)
ListesFrom(rows, i, acc) ==
    IF i > Len(rows) THEN acc
    ELSE LET dept == cell_val(rows[i][1])
             zone == cell_val(rows[i][2])
             typ == cell_val(rows[i][3])
             lm == cell_val(rows[i][4])
             la == cell_val(rows[i][5])
             dept_str == listes_dept_str(dept)
         IN  ListesFrom(rows, i + 1,
                [types |-> IF Truthy(typ) THEN acc.types \cup {PyStr(typ)} ELSE acc.types,
                 lignes_monument |->
                     IF Truthy(lm) /\ ~InList(acc.lignes_monument, PyStr(lm))
                     THEN Append(acc.lignes_monument, PyStr(lm))
                     ELSE acc.lignes_monument,
                 lignes_accessoire |->
                     IF Truthy(la) /\ ~InList(acc.lignes_accessoire, PyStr(la))
                     THEN Append(acc.lignes_accessoire, PyStr(la))
                     ELSE acc.lignes_accessoire,
                 departements |->
                     IF ~IsNull(dept) /\ Truthy(zone)
                        /\ ~(\E j \in 1..Len(acc.departements) :
                                acc.departements[j].departement = dept_str)
                     THEN Append(acc.departements,
                                 [departement |-> dept_str, zone |-> PyStr(zone)])
                     ELSE acc.departements])

read_listes(rows) ==
    LET acc == ListesFrom(rows, 1, [types |-> {}, lignes_monument |-> <<>>,
                                    lignes_accessoire |-> <<>>, departements |-> <<>>])
    IN  [types_list |-> AppendMissing(FilterIn(type_order, acc.types), Sorted(acc.types)),
         lignes_monument |-> acc.lignes_monument,
         lignes_accessoire |-> acc.lignes_accessoire,
         departements |-> acc.departements]

----------------------------------------------------------------------------
(* Normalisation of references and stone names, and the photo lookup.  The   *)
(* file system is [excel_dir, excel_files, workbook, photo_dirs, photos,     *)
(* case_insensitive, output_written, output, made_dirs]: photo_dirs the      *)
(* sub-directories of photos/ that exist, photos the files [dir, file] in    *)
(* them, case_insensitive whether the file system finds a name whatever its  *)
(* case (as the default ones of Windows and macOS do).                       *)

\* "-".join of the pieces of s around each match of \s*-\s*: a run of spaces is
\* dropped when a hyphen stands right before or right after it
RECURSIVE DropSpacesAtHyphens(_, _)
DropSpacesAtHyphens(s, prev) ==
    IF Len(s) = 0 THEN <<>>
    ELSE IF IsSpace(s[1])
    THEN LET rest == LStrip(s)
             run == SubSeq(s, 1, Len(s) - Len(rest))
         IN  IF prev = "-" \/ (Len(rest) > 0 /\ rest[1] = "-")
             THEN DropSpacesAtHyphens(rest, prev)
             ELSE run \o DropSpacesAtHyphens(rest, " ")
    ELSE <<s[1]>> \o DropSpacesAtHyphens(Tail(s), s[1])

normalize_ref(ref) ==
    IF ~Truthy(ref) THEN <<>>
    ELSE DropSpacesAtHyphens(Strip(PyStr(ref)), "")

\* unicodedata NFD without the combining marks
Unaccent(c) ==
    IF c \in {"e_acute", "e_grave"} THEN "e"
    ELSE IF c \in {"E_acute", "E_grave"} THEN "E"
    ELSE c

IsApostrophe(c) == c \in {"'", "BACKTICK"}

\* \w of the characters left after lower() and Unaccent
IsWordChar(c) == IsDigitChar(c) \/ c = "_" \/ \E i \in 1..Len(LowerCase) : LowerCase[i] = c

IsAlnumLower(c) == IsDigitChar(c) \/ \E i \in 1..Len(LowerCase) : LowerCase[i] = c

\* re.sub(r"\b[dlnqsj]['`]", "", name)
RECURSIVE DropContractions(_, _)
DropContractions(s, prev) ==
    IF Len(s) = 0 THEN <<>>
    ELSE IF /\ Len(s) >= 2
            /\ s[1] \in {"d", "l", "n", "q", "s", "j"}
            /\ IsApostrophe(s[2])
            /\ (prev = "" \/ ~IsWordChar(prev))
    THEN DropContractions(SubSeq(s, 3, Len(s)), s[2])
    ELSE <<s[1]>> \o DropContractions(Tail(s), s[1])

\* re.sub(r"[\s/\\]+", "-", name)
RECURSIVE SeparatorsToHyphen(_, _)
SeparatorsToHyphen(s, inRun) ==
    IF Len(s) = 0 THEN <<>>
    ELSE IF s[1] \in {" ", "/", "BACKSLASH"}
    THEN (IF inRun THEN <<>> ELSE <<"-">>) \o SeparatorsToHyphen(Tail(s), TRUE)
    ELSE <<s[1]>> \o SeparatorsToHyphen(Tail(s), FALSE)

\* re.sub(r"-+", "-", name)
RECURSIVE CollapseHyphens(_, _)
CollapseHyphens(s, inRun) ==
    IF Len(s) = 0 THEN <<>>
    ELSE IF s[1] = "-"
    THEN (IF inRun THEN <<>> ELSE <<"-">>) \o CollapseHyphens(Tail(s), TRUE)
    ELSE <<s[1]>> \o CollapseHyphens(Tail(s), FALSE)

RECURSIVE StripHyphens(_)
StripHyphens(s) ==
    IF Len(s) > 0 /\ s[1] = "-" THEN StripHyphens(Tail(s))
    ELSE IF Len(s) > 0 /\ s[Len(s)] = "-" THEN StripHyphens(SubSeq(s, 1, Len(s) - 1))
    ELSE s

normalize_granit_name(code, nom) ==
    IF ~Truthy(nom) THEN PyStr(code)
    ELSE LET lowered == Lower(PyStr(nom))
             unaccented == [i \in 1..Len(lowered) |-> Unaccent(lowered[i])]
             contracted == DropContractions(unaccented, "")
             plain == SelectSeq(contracted, LAMBDA c : ~IsApostrophe(c))
             hyphened == SeparatorsToHyphen(plain, FALSE)
             kept == SelectSeq(hyphened, LAMBDA c : IsAlnumLower(c) \/ c = "-")
         IN  PyStr(code) \o <<"-">> \o StripHyphens(CollapseHyphens(kept, FALSE))

PhotoExtensions == << <<".", "j", "p", "g">>, <<".", "j", "p", "e", "g">>, <<".", "p", "n", "g">> >>

NoPhoto == <<>>

\* the path of a photo file, relative to the project root
PhotoPath(subdir, filename) == <<"p", "h", "o", "t", "o", "s", "/">> \o subdir \o <<"/">> \o filename

\* the file system f takes name b for the entry stored as a
SameName(f, a, b) == a = b \/ (f.case_insensitive /\ Lower(a) = Lower(b))

\* os.path.isdir(os.path.join(PHOTOS_DIR, subdir))
IsDir(f, subdir) == \E d \in f.photo_dirs : SameName(f, d, subdir)

\* os.path.isfile(os.path.join(PHOTOS_DIR, subdir, filename))
IsFile(f, subdir, filename) ==
    \E p \in f.photos : SameName(f, p.dir, subdir) /\ SameName(f, p.file, filename)

\* find_photo(os.path.join(PHOTOS_DIR, subdir), base_name) on the file system f:
\* the first extension, in order, whose file exists
RECURSIVE FindPhotoFrom(_, _, _, _)
FindPhotoFrom(f, subdir, base_name, exts) ==
    IF Len(exts) = 0 THEN NoPhoto
    ELSE IF IsFile(f, subdir, base_name \o exts[1])
    THEN PhotoPath(subdir, base_name \o exts[1])
    ELSE FindPhotoFrom(f, subdir, base_name, Tail(exts))

find_photo(f, subdir, base_name) ==
    IF ~IsDir(f, subdir) THEN NoPhoto
    ELSE FindPhotoFrom(f, subdir, base_name, PhotoExtensions)

\* entry["photo"] = photo, when a photo was found
WithPhoto(entry, photo) ==
    IF photo = NoPhoto THEN entry
    ELSE [k \in DOMAIN entry \cup {"photo"} |-> IF k = "photo" THEN photo ELSE entry[k]]

----------------------------------------------------------------------------
(* The other structural readers and the product readers.  wb[name] is the   *)
(* sheet of that name; its rows are those from row 2 on.                    *)

HasSheet(w, name) == \E i \in 1..Len(w) : w[i].name = name

Sheet(w, name) == w[CHOOSE i \in 1..Len(w) : w[i].name = name]

\* [Entry(row) for row in rows if Keep(row)]
MapKept(rows, Keep(_), Entry(_)) ==
    LET kept == SelectSeq(rows, Keep)
    IN  [i \in 1..Len(kept) |-> Entry(kept[i])]

StrOrEmpty(v) == IF Truthy(v) THEN PyStr(v) ELSE <<>>

\* int(v) if v else 0
IntOrZero(v) == IF Truthy(v) THEN IntCell(ToInt(v)) ELSE IntCell(0)

\* clean_number(v) if v else 0
PriceOrZero(v) == IF Truthy(v) THEN clean_number(v, PriceDecimals) ELSE IntCell(0)

T_GRANITS == <<"G", "R", "A", "N", "I", "T", "S">>
T_PoidsTab == <<"P", "o", "i", "d", "s">>
T_TarifTFranco == <<"T", "a", "r", "i", "f", " ", "T", "F", "r", "a", "n", "c", "o">>
T_ZoneTFranco == <<"Z", "o", "n", "e", ".", "T", "F", "r", "a", "n", "c", "o">>
T_LISTES == <<"L", "I", "S", "T", "E", "S">>
T_Zone == <<"Z", "o", "n", "e">>

read_granits(f, w) ==
    MapKept(Sheet(w, T_GRANITS).rows,
            LAMBDA row : ~IsNull(cell_val(row[1])) /\ Truthy(cell_val(row[2])),
            LAMBDA row :
                LET code == cell_val(row[1])
                    nom == cell_val(row[2])
                    origine == cell_val(row[3])
                IN  WithPhoto([code |-> IF IsNumber(code) THEN IntCell(ToInt(code)) ELSE code,
                               nom |-> PyStr(nom),
                               origine |-> IF Truthy(origine) THEN Strip(PyStr(origine)) ELSE <<>>],
                              find_photo(f, <<"g", "r", "a", "n", "i", "t", "s">>, normalize_granit_name(code, nom))))

RECURSIVE PoidsFrom(_, _, _)
PoidsFrom(rows, i, poids) ==
    IF i > Len(rows) THEN poids
    ELSE LET ref == cell_val(rows[i][2])
             val == cell_val(rows[i][3])
         IN  IF Truthy(ref) /\ ~IsNull(val)
             THEN PoidsFrom(rows, i + 1,
                            DictSet(poids, PyStr(ref),
                                    IF Truthy(val) THEN clean_number(val, WeightDecimals)
                                    ELSE IntCell(0)))
             ELSE PoidsFrom(rows, i + 1, poids)

read_poids(w) == PoidsFrom(Sheet(w, T_PoidsTab).rows, 1, <<>>)

read_tarifs_transport(w) ==
    MapKept(Sheet(w, T_TarifTFranco).rows,
            LAMBDA row : Truthy(cell_val(row[1])) /\ StartsWith(PyStr(cell_val(row[1])), T_Zone),
            LAMBDA row :
                [zone |-> PyStr(cell_val(row[1])),
                 t0_3T |-> IntOrZero(row[2]),
                 t3_5T |-> IntOrZero(row[3]),
                 t5_8T |-> IntOrZero(row[4]),
                 t8_10T |-> IntOrZero(row[5]),
                 t10_15T |-> IntOrZero(row[6]),
                 minimum |-> IntOrZero(row[7])])

read_monuments_any_row(f, w, tab_name) ==
    MapKept(Sheet(w, tab_name).rows,
            LAMBDA row : TRUE,
            LAMBDA row :
                [ligne |-> StrOrEmpty(cell_val(row[1])),
                 reference |-> StrOrEmpty(cell_val(row[2])),
                 origine |-> StrOrEmpty(cell_val(row[3])),
                 code_granit |-> IntOrZero(cell_val(row[4])),
                 granit |-> StrOrEmpty(cell_val(row[5])),
                 prix_ht |-> clean_number(cell_val(row[6]), PriceDecimals),
                 avec_semelle_130x230 |-> clean_number(cell_val(row[7]), PriceDecimals),
                 avec_semelle_140x240 |-> clean_number(cell_val(row[8]), PriceDecimals),
                 avec_semelle_150x250 |-> clean_number(cell_val(row[9]), PriceDecimals)])

read_monuments(f, w, tab_name) ==
    MapKept(Sheet(w, tab_name).rows,
            LAMBDA row : Truthy(cell_val(row[2])) /\ ~IsNull(cell_val(row[6])),
            LAMBDA row :
                WithPhoto([ligne |-> StrOrEmpty(cell_val(row[1])),
                           reference |-> PyStr(cell_val(row[2])),
                           origine |-> StrOrEmpty(cell_val(row[3])),
                           code_granit |-> IntOrZero(cell_val(row[4])),
                           granit |-> StrOrEmpty(cell_val(row[5])),
                           prix_ht |-> PriceOrZero(cell_val(row[6])),
                           avec_semelle_130x230 |-> clean_number(cell_val(row[7]), PriceDecimals),
                           avec_semelle_140x240 |-> clean_number(cell_val(row[8]), PriceDecimals),
                           avec_semelle_150x250 |-> clean_number(cell_val(row[9]), PriceDecimals)],
                          find_photo(f, <<"m", "o", "n", "u", "m", "e", "n", "t", "s">>, normalize_ref(cell_val(row[2])))))

read_semelles(w, tab_name) ==
    MapKept(Sheet(w, tab_name).rows,
            LAMBDA row : Truthy(cell_val(row[2])) /\ ~IsNull(cell_val(row[6])),
            LAMBDA row :
                [reference |-> PyStr(cell_val(row[2])),
                 origine |-> StrOrEmpty(cell_val(row[3])),
                 code_granit |-> IntOrZero(cell_val(row[4])),
                 granit |-> StrOrEmpty(cell_val(row[5])),
                 prix_ht |-> PriceOrZero(cell_val(row[6]))])

read_accessoires(f, w, tab_name) ==
    MapKept(Sheet(w, tab_name).rows,
            LAMBDA row : Truthy(cell_val(row[3])) /\ ~IsNull(cell_val(row[7])),
            LAMBDA row :
                WithPhoto([type |-> StrOrEmpty(cell_val(row[2])),
                           reference |-> PyStr(cell_val(row[3])),
                           origine |-> StrOrEmpty(cell_val(row[4])),
                           code_granit |-> IntOrZero(cell_val(row[5])),
                           granit |-> StrOrEmpty(cell_val(row[6])),
                           prix_ht |-> PriceOrZero(cell_val(row[7]))],
                          find_photo(f, <<"a", "c", "c", "e", "s", "s", "o", "i", "r", "e", "s">>, normalize_ref(cell_val(row[3])))))

read_gravures(w, tab_name) ==
    MapKept(Sheet(w, tab_name).rows,
            LAMBDA row : Truthy(cell_val(row[2])) /\ ~IsNull(cell_val(row[3])),
            LAMBDA row :
                [reference |-> PyStr(cell_val(row[2])),
                 prix_caractere_ht |-> PriceOrZero(cell_val(row[3]))])

\* sub in h
Contains(h, sub) ==
    \E k \in 0..(Len(h) - Len(sub)) : SubSeq(h, k + 1, k + Len(sub)) = sub

H_reference_acute == <<"r", "e_acute", "f", "e_acute", "r", "e", "n", "c", "e">>
H_reference == <<"r", "e", "f", "e", "r", "e", "n", "c", "e">>
H_type == <<"t", "y", "p", "e">>
H_ligne == <<"l", "i", "g", "n", "e">>
H_ic == <<"i", "/", "c">>
H_origine == <<"o", "r", "i", "g", "i", "n", "e">>
H_code == <<"c", "o", "d", "e">>
H_granit == <<"g", "r", "a", "n", "i", "t">>
H_caractere_grave == <<"c", "a", "r", "a", "c", "t", "e_grave", "r", "e">>
H_caractere == <<"c", "a", "r", "a", "c", "t", "e", "r", "e">>
H_prix == <<"p", "r", "i", "x">>

\* entry[name] = val
SetField(entry, name, val) ==
    [k \in DOMAIN entry \cup {name} |-> IF k = name THEN val ELSE entry[k]]

NoFields == [k \in {} |-> Null]

\* the chain of read_generic_product with the test of "prix" moved before the
\* test of "caractere"
generic_field_prix_first(entry, h, v) ==
    IF Contains(h, H_reference_acute) \/ Contains(h, H_reference)
    THEN SetField(entry, "reference", PyStr(v))
    ELSE IF Contains(h, H_type) THEN SetField(entry, "type", PyStr(v))
    ELSE IF Contains(h, H_ligne) THEN SetField(entry, "ligne", PyStr(v))
    ELSE IF h \in {H_ic, H_origine} THEN SetField(entry, "origine", PyStr(v))
    ELSE IF Contains(h, H_code) THEN SetField(entry, "code_granit", IntOrZero(v))
    ELSE IF Contains(h, H_granit) THEN SetField(entry, "granit", PyStr(v))
    ELSE IF Contains(h, H_prix) THEN SetField(entry, "prix_ht", PriceOrZero(v))
    ELSE IF Contains(h, H_caractere_grave) \/ Contains(h, H_caractere)
    THEN SetField(entry, "prix_caractere_ht", PriceOrZero(v))
    ELSE entry

\* the if/elif chain of read_generic_product on header h and non-null value v
GenericField(entry, h, v) ==
    IF Contains(h, H_reference_acute) \/ Contains(h, H_reference)
    THEN SetField(entry, "reference", PyStr(v))
    ELSE IF Contains(h, H_type) THEN SetField(entry, "type", PyStr(v))
    ELSE IF Contains(h, H_ligne) THEN SetField(entry, "ligne", PyStr(v))
    ELSE IF h \in {H_ic, H_origine} THEN SetField(entry, "origine", PyStr(v))
    ELSE IF Contains(h, H_code) /\ Contains(h, H_granit)
    THEN SetField(entry, "code_granit", IntOrZero(v))
    ELSE IF Contains(h, H_code) THEN SetField(entry, "code_granit", IntOrZero(v))
    ELSE IF Contains(h, H_granit) THEN SetField(entry, "granit", PyStr(v))
    ELSE IF Contains(h, H_caractere_grave) \/ Contains(h, H_caractere)
    THEN SetField(entry, "prix_caractere_ht", PriceOrZero(v))
    ELSE IF Contains(h, H_prix) THEN SetField(entry, "prix_ht", PriceOrZero(v))
    ELSE entry

\* for i, h in enumerate(headers), from header i on
RECURSIVE GenericEntryFrom(_, _, _, _)
GenericEntryFrom(headers, vals, i, entry) ==
    IF i > Len(headers) \/ i > Len(vals) THEN entry
    ELSE IF IsNull(vals[i]) THEN GenericEntryFrom(headers, vals, i + 1, entry)
    ELSE GenericEntryFrom(headers, vals, i + 1, GenericField(entry, headers[i], vals[i]))

\* the loop of read_generic_product over the rows from row i on
RECURSIVE GenericItemsFrom(_, _, _, _, _, _)
GenericItemsFrom(f, photos_subdir, headers, rows, i, items) ==
    IF i > Len(rows) THEN items
    ELSE LET vals == [c \in 1..Len(rows[i]) |-> cell_val(rows[i][c])]
             entry == GenericEntryFrom(headers, vals, 1, NoFields)
         IN  IF \A c \in 1..Len(vals) : IsNull(vals[c])
             THEN GenericItemsFrom(f, photos_subdir, headers, rows, i + 1, items)
             ELSE IF DOMAIN entry = {}
             THEN GenericItemsFrom(f, photos_subdir, headers, rows, i + 1, items)
             ELSE GenericItemsFrom(f, photos_subdir, headers, rows, i + 1,
                    Append(items,
                           IF "reference" \in DOMAIN entry /\ Len(entry.reference) > 0
                           THEN WithPhoto(entry,
                                    find_photo(f, photos_subdir,
                                               normalize_ref(TextCell(entry.reference))))
                           ELSE entry))

read_generic_product(f, w, tab_name, product_type) ==
    LET ws == Sheet(w, tab_name)
        headers == [c \in 1..Len(ws.header) |->
                       IF Truthy(cell_val(ws.header[c]))
                       THEN Strip(Lower(PyStr(cell_val(ws.header[c]))))
                       ELSE <<>>]
    IN  GenericItemsFrom(f, Lower(product_type) \o <<"s">>, headers, ws.rows, 1, <<>>)

----------------------------------------------------------------------------
(* The classification of the sheets: detect_product_tabs, extract_product_type *)

FIXED_TABS ==
    {<<"G", "R", "A", "N", "I", "T", "S">>,
     <<"P", "o", "i", "d", "s">>,
     <<"T", "a", "r", "i", "f", " ", "T", "F", "r", "a", "n", "c", "o">>,
     <<"Z", "o", "n", "e", ".", "T", "F", "r", "a", "n", "c", "o">>,
     <<"L", "I", "S", "T", "E", "S">>}

IGNORED_TABS ==
    {<<"M", "o", "d", "e", " ", "o", "p", "e_acute", "r", "a", "t", "o", "i", "r", "e">>,
     <<"C", "A", "L", "C", "U", "L", " ", "P", "R", "I", "X", " ", "A", "C", "H", "A", "T", " ", "EUR">>,
     <<"C", "A", "L", "C", "U", "L", " ", "P", "R", "I", "X", " ", "F", "A", "M", "I", "L", "L", "E", " ", "EUR">>,
     <<"(", "S", "e", "m", "e", "l", "l", "e", "s", ".", "M", "o", "n", "u", "m", "e", "n", "t", ".", "EUR", "H", "T", ")">>}

\* the literal tail of PRODUCT_TAB_PATTERN
PrixAdhSuffix == <<".", "P", "r", "i", "x", "A", "d", "h", ".", "EUR", "H", "T">>

\* re.match(PRODUCT_TAB_PATTERN, name): ".+" takes k >= 1 characters and the
\* literal takes the rest, to the end of the name ("." takes no line break, "$"
\* also stands before a line break that ends the name)
MatchesProductPattern(name) ==
    \E k \in 1..Len(name) :
        /\ \A i \in 1..k : name[i] # "NEWLINE"
        /\ SubSeq(name, k + 1, Len(name)) \in {PrixAdhSuffix, PrixAdhSuffix \o <<"NEWLINE">>}

\* a sheet: [name, sheet_state, header (row 1), rows (row 2 on)]
RECURSIVE DetectFrom(_, _, _)
DetectFrom(sheets, i, tabs) ==
    IF i > Len(sheets) THEN tabs
    ELSE LET name == sheets[i].name
         IN  IF name \in IGNORED_TABS THEN DetectFrom(sheets, i + 1, tabs)
             ELSE IF name \in FIXED_TABS THEN DetectFrom(sheets, i + 1, tabs)
             ELSE IF MatchesProductPattern(name)
             THEN (IF StartsWith(name, <<"(">>) /\ EndsWith(name, <<")">>)
                   THEN DetectFrom(sheets, i + 1, tabs)
                   ELSE IF sheets[i].sheet_state # "visible"
                   THEN DetectFrom(sheets, i + 1, tabs)
                   ELSE DetectFrom(sheets, i + 1, Append(tabs, name)))
             ELSE DetectFrom(sheets, i + 1, tabs)

RECURSIVE DetectAnyState(_, _, _)
DetectAnyState(sheets, i, tabs) ==
    IF i > Len(sheets) THEN tabs
    ELSE LET name == sheets[i].name
         IN  IF name \in IGNORED_TABS \/ name \in FIXED_TABS
                \/ ~MatchesProductPattern(name)
                \/ (StartsWith(name, <<"(">>) /\ EndsWith(name, <<")">>))
             THEN DetectAnyState(sheets, i + 1, tabs)
             ELSE DetectAnyState(sheets, i + 1, Append(tabs, name))

detect_product_tabs_any_state(sheets) == DetectAnyState(sheets, 1, <<>>)

detect_product_tabs(sheets) == DetectFrom(sheets, 1, <<>>)

\* tab_name.split(".")[0]
RECURSIVE BeforeFirstDot(_)
BeforeFirstDot(s) ==
    IF Len(s) = 0 \/ s[1] = "." THEN <<>> ELSE <<s[1]>> \o BeforeFirstDot(Tail(s))

T_Poids == <<"P", "o", "i", "d", "s">>

extract_product_type_no_exception(tab_name) ==
    LET base == BeforeFirstDot(tab_name)
    IN  IF EndsWith(base, <<"s">>) THEN SubSeq(base, 1, Len(base) - 1) ELSE base

extract_product_type(tab_name) ==
    LET base == BeforeFirstDot(tab_name)
    IN  IF EndsWith(base, <<"s">>) /\ base # T_Poids
        THEN SubSeq(base, 1, Len(base) - 1)
        ELSE base

----------------------------------------------------------------------------
(* find_excel and the assembly of build_data *)

T_xlsx == <<".", "x", "l", "s", "x">>

\* [f for f in os.listdir(EXCEL_DIR) if f.endswith(".xlsx") and not f.startswith("~")]
excel_candidates_with_lock_files(f) ==
    SelectSeq(f.excel_files, LAMBDA n : EndsWith(n, T_xlsx))

excel_candidates(f) ==
    SelectSeq(f.excel_files, LAMBDA n : EndsWith(n, T_xlsx) /\ ~StartsWith(n, <<"~">>))

\* find_excel calls sys.exit(1)
find_excel_exits(f) == ~f.excel_dir \/ Len(excel_candidates(f)) = 0

\* find_excel's return value
find_excel(f) == excel_candidates(f)[1]

K_granits == <<"g", "r", "a", "n", "i", "t", "s">>
K_monuments == <<"m", "o", "n", "u", "m", "e", "n", "t", "s">>
K_semelles == <<"s", "e", "m", "e", "l", "l", "e", "s">>
K_accessoires == <<"a", "c", "c", "e", "s", "s", "o", "i", "r", "e", "s">>
K_gravures == <<"g", "r", "a", "v", "u", "r", "e", "s">>
K_lithos == <<"l", "i", "t", "h", "o", "s">>
K_urnes == <<"u", "r", "n", "e", "s">>
K_poids == <<"p", "o", "i", "d", "s">>
K_zones_transport == <<"z", "o", "n", "e", "s", "_", "t", "r", "a", "n", "s", "p", "o", "r", "t">>
K_tarifs_transport == <<"t", "a", "r", "i", "f", "s", "_", "t", "r", "a", "n", "s", "p", "o", "r", "t">>
K_departements == <<"d", "e", "p", "a", "r", "t", "e", "m", "e", "n", "t", "s">>
K_types == <<"t", "y", "p", "e", "s">>
K_lignes_monument == <<"l", "i", "g", "n", "e", "s", "_", "m", "o", "n", "u", "m", "e", "n", "t">>
K_lignes_accessoire == <<"l", "i", "g", "n", "e", "s", "_", "a", "c", "c", "e", "s", "s", "o", "i", "r", "e">>

\* the values of the document, by JSON shape: a list of objects, a list of
\* strings, a mapping
ObjList(items) == [objs |-> items]
StrList(strs) == [strs |-> strs]
Mapping(d) == [map |-> d]

\* the key build_data stores a product type under
product_key(product_type) ==
    IF product_type = <<"M", "o", "n", "u", "m", "e", "n", "t">> THEN K_monuments
    ELSE IF product_type = <<"S", "e", "m", "e", "l", "l", "e">> THEN K_semelles
    ELSE IF product_type = <<"A", "c", "c", "e", "s", "s", "o", "i", "r", "e">> THEN K_accessoires
    ELSE IF product_type = <<"G", "r", "a", "v", "u", "r", "e">> THEN K_gravures
    ELSE Lower(product_type) \o <<"s">>

\* the reader build_data calls for a product type, on the tab
read_product_tab(f, w, tab_name, product_type) ==
    IF product_type = <<"M", "o", "n", "u", "m", "e", "n", "t">> THEN read_monuments(f, w, tab_name)
    ELSE IF product_type = <<"S", "e", "m", "e", "l", "l", "e">> THEN read_semelles(w, tab_name)
    ELSE IF product_type = <<"A", "c", "c", "e", "s", "s", "o", "i", "r", "e">> THEN read_accessoires(f, w, tab_name)
    ELSE IF product_type = <<"G", "r", "a", "v", "u", "r", "e">> THEN read_gravures(w, tab_name)
    ELSE read_generic_product(f, w, tab_name, product_type)

ExpectedKeys == <<K_monuments, K_semelles, K_accessoires, K_gravures, K_lithos, K_urnes>>

RECURSIVE FillFrom(_, _)
FillFrom(d, expected) ==
    IF Len(expected) = 0 THEN d
    ELSE FillFrom(IF HasKey(d, expected[1]) THEN d ELSE DictSet(d, expected[1], ObjList(<<>>)),
                  Tail(expected))

fill_expected_keys_none(d) == d

\* for expected_key in [...]: if expected_key not in data: data[expected_key] = []
fill_expected_keys(d) == FillFrom(d, ExpectedKeys)

\* data["poids"] = poids ... data["lignes_accessoire"] = lignes_accessoire
merge_structural(d, st) ==
    LET d1 == DictSet(d, K_poids, Mapping(st.poids))
        d2 == DictSet(d1, K_zones_transport, Mapping(st.zones_transport))
        d3 == DictSet(d2, K_tarifs_transport, ObjList(st.tarifs_transport))
        d4 == DictSet(d3, K_departements, ObjList(st.departements))
        d5 == DictSet(d4, K_types, StrList(st.types_list))
        d6 == DictSet(d5, K_lignes_monument, StrList(st.lignes_monument))
    IN  DictSet(d6, K_lignes_accessoire, StrList(st.lignes_accessoire))

\* the photo sub-directories build_data looks at after the write
RECURSIVE PhotoSubdirsFrom(_, _, _)
PhotoSubdirsFrom(tabs, i, subdirs) ==
    IF i > Len(tabs) THEN subdirs
    ELSE LET pt == Lower(extract_product_type(tabs[i])) \o <<"s">>
         IN  PhotoSubdirsFrom(tabs, i + 1,
                              IF InList(subdirs, pt) THEN subdirs ELSE Append(subdirs, pt))

photo_subdirs(tabs) ==
    PhotoSubdirsFrom(tabs, 1,
        <<K_monuments, K_accessoires, K_granits, K_gravures, K_lithos, K_urnes>>)

----------------------------------------------------------------------------
(* The state of the specifications that check one pure function: the run of *)
(* build_data is not started                                                *)

NoRun ==
    /\ fs = <<>>
    /\ excel_path = <<>>
    /\ wb = <<>>
    /\ structural = <<>>
    /\ product_tabs = <<>>
    /\ tab_idx = 0
    /\ data = <<>>
    /\ reads = <<>>

----------------------------------------------------------------------------
(* clean_number on prices and weights *)

FracDigits == {0, 4, 5, 9}

\* the fractional parts, in units: one digit of FracDigits per decimal place
Fractions == {a * 1000 + b * 100 + c * 10 + d : a \in FracDigits, b \in FracDigits,
                                                c \in FracDigits, d \in FracDigits}

NumberCells ==
    {IntCell(s * w) : w \in 0..MaxWhole, s \in {-1, 1}}
    \cup {FloatCell(s * (w * FScale + f), e) :
              w \in 0..MaxWhole, f \in Fractions, s \in {-1, 1}, e \in {-1, 0, 1}}

InitNum ==
    /\ pc = "num"
    /\ call \in [val : NumberCells, decimals : {PriceDecimals, WeightDecimals}]
    /\ ret = <<>>
    /\ NoRun

\* v = clean_number(val, decimals)
CleanNumber ==
    /\ pc = "num"
    /\ ret = <<>>
    /\ ret' = <<clean_number(call.val, call.decimals)>>
    /\ UNCHANGED <<pc, call, mainVars>>

\* the value a float result stands for is again a double, on either side of its decimal
AsStored(v, e) == IF v.t = "float" THEN FloatCell(v.u, e) ELSE v

\* clean_number(v, decimals), on the first result
CleanNumberAgain ==
    /\ pc = "num"
    /\ Len(ret) = 1
    /\ \E e \in {-1, 0, 1} :
          ret' = Append(ret, clean_number(AsStored(ret[1], e), call.decimals))
    /\ UNCHANGED <<pc, call, mainVars>>

NextNum == CleanNumber \/ CleanNumberAgain

SpecNum == InitNum /\ [][NextNum]_vars

Abs(x) == IF x < 0 THEN -x ELSE x

\* C9: clean_number's result is the value rounded to d decimals (within half a
\* unit of the d-th decimal, with at most d decimals), an integer exactly when
\* that rounded value has no fractional part and a decimal otherwise; applied
\* again to its own result it returns the same result (idempotence).
C9_CleanNumberIdempotent ==
    (pc = "num" /\ Len(ret) >= 1) =>
        LET r == ret[1]
            q == Pow10(DecimalPlaces - call.decimals)
        IN  /\ IsNumber(r)
            /\ ToUnits(r) % q = 0
            /\ 2 * Abs(ToUnits(r) - ToUnits(call.val)) <= q
            /\ (r.t = "int") <=> (ToUnits(r) % FScale = 0)
            /\ Len(ret) = 2 => ret[2] = r

\* 12.00 at 2 decimals gave the integer 12, and again 12 when applied twice
C9_Witness ==
    /\ pc = "num"
    /\ Len(ret) = 2
    /\ call.val = FloatCell(12 * FScale, 0)
    /\ call.decimals = PriceDecimals
    /\ ret[1] = IntCell(12)

\* 0.0450 (a double just below the tie) at 2 decimals gave the decimal 0.04
C9_WitnessDecimal ==
    /\ pc = "num"
    /\ Len(ret) = 2
    /\ call.val = FloatCell(450, -1)
    /\ call.decimals = PriceDecimals
    /\ ret[1] = FloatCell(400, 0)

----------------------------------------------------------------------------
(* read_zones_transport and read_listes on bounded sheets *)

T_Zone1 == <<"Z", "o", "n", "e", " ", "1">>
T_Zone2 == <<"Z", "o", "n", "e", " ", "2">>
T_Monument == <<"M", "o", "n", "u", "m", "e", "n", "t">>
T_Classique == <<"C", "l", "a", "s", "s", "i", "q", "u", "e">>
T_Vase == <<"V", "a", "s", "e">>

ZoneDeptCells ==
    {IntCell(5), IntCell(123), FloatCell(5 * FScale, 0), TextCell(<<"0", "5">>),
     TextCell(<<"2", "A">>)}

ListDeptCells ==
    {IntCell(0), IntCell(5), IntCell(75), TextCell(<<"5">>), TextCell(<<" ", "7">>),
     TextCell(<<"9", "7", "1">>)}

ListZoneCells == {Null, TextCell(T_Zone1), TextCell(T_Zone2)}

\* the sheet of n rows whose non-empty cells are those of f, a function of positions
ZoneGrid(n, f) ==
    [i \in 1..n |-> [c \in 1..ZoneColumns |->
        IF ((i - 1) * ZoneColumns + c) \in DOMAIN f THEN f[(i - 1) * ZoneColumns + c]
        ELSE Null]]

ZoneSheets ==
    {<<>>} \cup
    {ZoneGrid(MaxZoneRows, f) :
        f \in UNION {[P -> ZoneDeptCells] :
                        P \in {Q \in SUBSET (1..(MaxZoneRows * ZoneColumns)) :
                                  Cardinality(Q) \in 1..MaxZoneCells}}}

ListRows ==
    {<<d, z, o[1], o[2], o[3]>> :
        d \in ListDeptCells \cup {Null}, z \in ListZoneCells,
        o \in {<<Null, Null, Null>>,
                <<TextCell(T_Monument), TextCell(T_Classique), TextCell(T_Vase)>>}}

RECURSIVE SeqsUpTo(_, _)
SeqsUpTo(S, n) ==
    IF n = 0 THEN {<<>>}
    ELSE LET shorter == SeqsUpTo(S, n - 1)
         IN  shorter \cup {Append(q, x) : q \in shorter, x \in S}

InitDept ==
    /\ \/ pc = "zones" /\ call \in ZoneSheets
       \/ pc = "listes" /\ call \in SeqsUpTo(ListRows, MaxListRows)
    /\ ret = <<>>
    /\ NoRun

\* zones = read_zones_transport(wb)
ReadZonesTransport ==
    /\ pc = "zones"
    /\ ret = <<>>
    /\ ret' = <<read_zones_transport(call)>>
    /\ UNCHANGED <<pc, call, mainVars>>

\* types_list, lignes_monument, lignes_accessoire, departements = read_listes(wb)
ReadListes ==
    /\ pc = "listes"
    /\ ret = <<>>
    /\ ret' = <<read_listes(call)>>
    /\ UNCHANGED <<pc, call, mainVars>>

NextDept == ReadZonesTransport \/ ReadListes

SpecDept == InitDept /\ [][NextDept]_vars

\* the department cells read: of Zone.TFranco every non-empty cell, of LISTES
\* the non-empty cells of column A whose row has a zone
DeptCellsRead ==
    IF pc = "zones"
    THEN {cell_val(call[i][c]) : i \in 1..Len(call), c \in 1..ZoneColumns} \ {Null}
    ELSE {cell_val(call[i][1]) :
             i \in {j \in 1..Len(call) : Truthy(cell_val(call[j][2]))}} \ {Null}

\* the department codes of the result
DeptCodes ==
    IF pc = "zones" THEN Keys(ret[1])
    ELSE {ret[1].departements[j].departement : j \in 1..Len(ret[1].departements)}

\* the text of a cell before padding
DeptText(v) == IF IsNumber(v) THEN IntToStr(ToInt(v)) ELSE PyStr(v)

TwoDigits(n) == <<Digits[(n \div 10) + 1], Digits[(n % 10) + 1]>>

\* C4 as stated: every department code of zones_transport and of departements
\* is a string of exactly two digits, whatever the non-null cell value.
C4_AlwaysTwoDigits ==
    (pc \in {"zones", "listes"} /\ Len(ret) = 1) =>
        \A code \in DeptCodes : Len(code) = 2 /\ IsDigit(code)

\* C4, amended: a code is never a single digit: a number whose integer part is
\* 0..99 gives exactly its two digits (one leading zero below 10), and every
\* code is a cell's text, or that text after one "0" when the text is a single
\* digit; longer or non-digit text is kept as it is.
C4_SingleDigitPadded ==
    (pc \in {"zones", "listes"} /\ Len(ret) = 1) =>
        /\ \A code \in DeptCodes : ~(Len(code) = 1 /\ IsDigit(code))
        /\ \A v \in DeptCellsRead :
              (IsNumber(v) /\ ToInt(v) \in 0..99) => TwoDigits(ToInt(v)) \in DeptCodes
        /\ \A v \in DeptCellsRead :
              IF Len(DeptText(v)) = 1 /\ IsDigitChar(DeptText(v)[1])
              THEN <<"0">> \o DeptText(v) \in DeptCodes
              ELSE DeptText(v) \in DeptCodes
        /\ \A code \in DeptCodes :
              \E v \in DeptCellsRead : code \in {DeptText(v), <<"0">> \o DeptText(v)}

\* the integer 5 gave "05" and the integer 123 was kept as "123"
C4_Witness ==
    /\ pc = "zones"
    /\ Len(ret) = 1
    /\ IntCell(5) \in DeptCellsRead
    /\ IntCell(123) \in DeptCellsRead
    /\ HasKey(ret[1], <<"0", "5">>)
    /\ HasKey(ret[1], <<"1", "2", "3">>)

\* the positions of Zone.TFranco, in scan order, whose cell gives code k
ZonePositions(k) ==
    {p \in 1..(Len(call) * ZoneColumns) :
        LET v == cell_val(call[((p - 1) \div ZoneColumns) + 1][((p - 1) % ZoneColumns) + 1])
        IN  ~IsNull(v) /\ zone_dept_str(v) = k}

Max(S) == CHOOSE x \in S : \A y \in S : y <= x
Min(S) == CHOOSE x \in S : \A y \in S : x <= y

\* the zone of the last occurrence of each code, in row-major order
ZonesLastWins ==
    \A k \in Keys(ret[1]) :
        /\ ZonePositions(k) # {}
        /\ Get(ret[1], k) = ZoneName((Max(ZonePositions(k)) - 1) % ZoneColumns)

\* the rows of LISTES whose column A gives code k
ListRowsOf(k) ==
    {i \in 1..Len(call) :
        ~IsNull(cell_val(call[i][1])) /\ listes_dept_str(cell_val(call[i][1])) = k}

\* the same, among the rows that hold a zone
ListZonedRowsOf(k) == {i \in ListRowsOf(k) : Truthy(cell_val(call[i][2]))}

NoDuplicateDept ==
    \A i, j \in 1..Len(ret[1].departements) :
        ret[1].departements[i].departement = ret[1].departements[j].departement => i = j

\* C10 as stated: read_zones_transport keeps the zone of the last occurrence;
\* read_listes keeps the zone of the first row in which the department appears
\* and never lists a department twice.
C10_FirstRowOfDept ==
    /\ (pc = "zones" /\ Len(ret) = 1) => ZonesLastWins
    /\ (pc = "listes" /\ Len(ret) = 1) =>
          /\ NoDuplicateDept
          /\ \A k \in {listes_dept_str(v) : v \in
                         {cell_val(call[i][1]) : i \in 1..Len(call)} \ {Null}} :
                ListZonedRowsOf(k) # {} =>
                    \E j \in 1..Len(ret[1].departements) :
                        /\ ret[1].departements[j].departement = k
                        /\ Truthy(cell_val(call[Min(ListRowsOf(k))][2]))
                        /\ ret[1].departements[j].zone =
                               PyStr(cell_val(call[Min(ListRowsOf(k))][2]))

\* C10, amended: read_zones_transport keeps the zone of the last occurrence of
\* a code (rows top to bottom, columns A to F); read_listes keeps the zone of
\* the first row in which the department appears with a non-empty zone (rows
\* without a zone are skipped), and never lists a department twice.
C10_LastWinsFirstWins ==
    /\ (pc = "zones" /\ Len(ret) = 1) => ZonesLastWins
    /\ (pc = "listes" /\ Len(ret) = 1) =>
          /\ NoDuplicateDept
          /\ \A j \in 1..Len(ret[1].departements) :
                LET k == ret[1].departements[j].departement
                IN  /\ ListZonedRowsOf(k) # {}
                    /\ ret[1].departements[j].zone =
                           PyStr(cell_val(call[Min(ListZonedRowsOf(k))][2]))
          /\ \A i \in 1..Len(call) :
                (~IsNull(cell_val(call[i][1])) /\ Truthy(cell_val(call[i][2]))) =>
                    \E j \in 1..Len(ret[1].departements) :
                        ret[1].departements[j].departement =
                            listes_dept_str(cell_val(call[i][1]))

\* a code that occurs twice in Zone.TFranco, in different columns, got the later zone
C10_Witness ==
    /\ pc = "zones"
    /\ Len(ret) = 1
    /\ \E k \in Keys(ret[1]) :
          /\ Cardinality(ZonePositions(k)) >= 2
          /\ (Min(ZonePositions(k)) - 1) % ZoneColumns # (Max(ZonePositions(k)) - 1) % ZoneColumns

\* a department on two rows of LISTES with different zones got the first zone
C10_WitnessListes ==
    /\ pc = "listes"
    /\ Len(ret) = 1
    /\ Len(call) = 2
    /\ \E k \in DeptCodes :
          /\ ListZonedRowsOf(k) = {1, 2}
          /\ cell_val(call[1][2]) # cell_val(call[2][2])

----------------------------------------------------------------------------
(* detect_product_tabs and extract_product_type on bounded workbooks and names *)

SheetNames ==
    {<<"M", "o", "n", "u", "m", "e", "n", "t", ".", "P", "r", "i", "x", "A", "d", "h", ".", "EUR", "H", "T">>,
     <<"A", "c", "c", "e", "s", "s", "o", "i", "r", "e", "s", ".", "P", "r", "i", "x", "A", "d", "h", ".", "EUR", "H", "T">>,
     <<"P", "o", "i", "d", "s", ".", "P", "r", "i", "x", "A", "d", "h", ".", "EUR", "H", "T">>,
     <<"(", "A", "r", "c", "h", "i", "v", "e", ".", "P", "r", "i", "x", "A", "d", "h", ".", "EUR", "H", "T", ")">>,
     <<"(", "A", "r", "c", "h", "i", "v", "e", ".", "P", "r", "i", "x", "A", "d", "h", ".", "EUR", "H", "T">>,
     <<"x", ".", "P", "r", "i", "x", "A", "d", "h", ".", "EUR", "H", "T">>,
     <<".", "P", "r", "i", "x", "A", "d", "h", ".", "EUR", "H", "T">>,
     <<"L", "i", "t", "h", "o", ".", "P", "r", "i", "x", "A", "d", "h", ".", "EUR", "H", "T", ".", "b", "a", "k">>,
     <<"M", "o", "n", "u", "m", "e", "n", "t", ".", "P", "r", "i", "x", "A", "d", "h">>,
     <<"(", "S", "e", "m", "e", "l", "l", "e", "s", ".", "M", "o", "n", "u", "m", "e", "n", "t", ".", "EUR", "H", "T", ")">>,
     <<"M", "o", "d", "e", " ", "o", "p", "e_acute", "r", "a", "t", "o", "i", "r", "e">>,
     <<"G", "R", "A", "N", "I", "T", "S">>,
     <<"Z", "o", "n", "e", ".", "T", "F", "r", "a", "n", "c", "o">>,
     <<"N", "o", "t", "e", "s">>}

SheetStates == {"visible", "hidden", "veryHidden"}

EmptySheet(name, state) == [name |-> name, sheet_state |-> state, header |-> <<>>, rows |-> <<>>]

\* the workbooks of at most n sheets, no two of the same name
RECURSIVE Workbooks(_)
Workbooks(n) ==
    IF n = 0 THEN {<<>>}
    ELSE LET shorter == Workbooks(n - 1)
         IN  shorter \cup
             {Append(w, EmptySheet(name, state)) :
                 w \in shorter, name \in SheetNames, state \in SheetStates}

DistinctNames(w) == \A i, j \in 1..Len(w) : w[i].name = w[j].name => i = j

NameAlphabet == {"s", ".", "a", "P"}

TabNames ==
    SheetNames \cup SeqsUpTo(NameAlphabet, MaxNameLen)
    \cup {T_Poids, T_Poids \o <<"s">>, T_Poids \o <<".", "s">>}

InitTabs ==
    /\ \/ pc = "tabs" /\ call \in {w \in Workbooks(MaxTabSheets) : DistinctNames(w)}
       \/ pc = "type" /\ call \in TabNames
    /\ ret = <<>>
    /\ NoRun

\* product_tabs = detect_product_tabs(wb)
DetectProductTabs ==
    /\ pc = "tabs"
    /\ ret = <<>>
    /\ ret' = <<detect_product_tabs(call)>>
    /\ UNCHANGED <<pc, call, mainVars>>

\* product_type = extract_product_type(tab_name)
ExtractProductType ==
    /\ pc = "type"
    /\ ret = <<>>
    /\ ret' = <<extract_product_type(call)>>
    /\ UNCHANGED <<pc, call, mainVars>>

NextTabs == DetectProductTabs \/ ExtractProductType

SpecTabs == InitTabs /\ [][NextTabs]_vars

\* a sheet is a product tab: not ignored, not fixed, <name>.PrixAdh.EURHT with a
\* non-empty <name>, not wrapped in parentheses, visible
IsProductTab(sheet) ==
    /\ sheet.name \notin IGNORED_TABS
    /\ sheet.name \notin FIXED_TABS
    /\ Len(sheet.name) > Len(PrixAdhSuffix)
    /\ EndsWith(sheet.name, PrixAdhSuffix)
    /\ ~(sheet.name[1] = "(" /\ sheet.name[Len(sheet.name)] = ")")
    /\ sheet.sheet_state = "visible"

\* the index of the sheet of a name
SheetIndex(w, name) == CHOOSE i \in 1..Len(w) : w[i].name = name

\* C2: detect_product_tabs returns exactly the names of the sheets that are
\* product tabs (not in IGNORED_TABS, not in FIXED_TABS, matching the pattern,
\* not wrapped in parentheses, visible), each once, in the workbook's sheet
\* order; a sheet named (Archive.PrixAdh.EURHT) is never returned.
C2_DetectExactlyProductTabs ==
    (pc = "tabs" /\ Len(ret) = 1) =>
        LET tabs == ret[1]
        IN  /\ \A i \in 1..Len(call) : InList(tabs, call[i].name) <=> IsProductTab(call[i])
            /\ \A i \in 1..Len(tabs) : \E j \in 1..Len(call) : call[j].name = tabs[i]
            /\ \A i, j \in 1..Len(tabs) :
                  i < j => SheetIndex(call, tabs[i]) < SheetIndex(call, tabs[j])
            /\ ~InList(tabs, <<"(", "A", "r", "c", "h", "i", "v", "e", ".", "P", "r", "i", "x", "A", "d", "h", ".", "EUR", "H", "T", ")">>)

\* a visible (Archive.PrixAdh.EURHT) stood before a visible product tab, and
\* only the product tab was returned
C2_Witness ==
    /\ pc = "tabs"
    /\ Len(ret) = 1
    /\ Len(call) = 2
    /\ call[1].name = <<"(", "A", "r", "c", "h", "i", "v", "e", ".", "P", "r", "i", "x", "A", "d", "h", ".", "EUR", "H", "T", ")">>
    /\ call[1].sheet_state = "visible"
    /\ ret[1] = <<<<"M", "o", "n", "u", "m", "e", "n", "t", ".", "P", "r", "i", "x", "A", "d", "h", ".", "EUR", "H", "T">>>>

\* two product tabs were returned in sheet order
C2_WitnessOrder ==
    /\ pc = "tabs"
    /\ Len(ret) = 1
    /\ Len(ret[1]) = 2
    /\ ret[1] = <<call[1].name, call[2].name>>

\* C8: extract_product_type returns the segment of the name before its first
\* '.', without its last character when that segment ends in 's' and is not
\* exactly "Poids": Monument.PrixAdh.EURHT gives Monument,
\* Accessoires.PrixAdh.EURHT gives Accessoire, Poids.PrixAdh.EURHT gives Poids.
C8_ExtractProductType ==
    (pc = "type" /\ Len(ret) = 1) =>
        LET r == ret[1]
            strip == \E n \in 1..Len(call) :
                        /\ \A i \in 1..n : call[i] # "."
                        /\ call[n] = "s"
                        /\ n = Len(call) \/ call[n + 1] = "."
                        /\ SubSeq(call, 1, n) # T_Poids
            base == IF strip THEN r \o <<"s">> ELSE r
        IN  /\ \A i \in 1..Len(base) : base[i] # "."
            /\ Len(base) <= Len(call)
            /\ SubSeq(call, 1, Len(base)) = base
            /\ Len(base) = Len(call) \/ call[Len(base) + 1] = "."
            /\ call = <<"M", "o", "n", "u", "m", "e", "n", "t", ".", "P", "r", "i", "x", "A", "d", "h", ".", "EUR", "H", "T">> => r = <<"M", "o", "n", "u", "m", "e", "n", "t">>
            /\ call = <<"A", "c", "c", "e", "s", "s", "o", "i", "r", "e", "s", ".", "P", "r", "i", "x", "A", "d", "h", ".", "EUR", "H", "T">> => r = <<"A", "c", "c", "e", "s", "s", "o", "i", "r", "e">>
            /\ call = <<"P", "o", "i", "d", "s", ".", "P", "r", "i", "x", "A", "d", "h", ".", "EUR", "H", "T">> => r = <<"P", "o", "i", "d", "s">>

\* Accessoires.PrixAdh.EURHT gave Accessoire
C8_Witness ==
    /\ pc = "type"
    /\ Len(ret) = 1
    /\ call = <<"A", "c", "c", "e", "s", "s", "o", "i", "r", "e", "s", ".", "P", "r", "i", "x", "A", "d", "h", ".", "EUR", "H", "T">>
    /\ ret[1] = <<"A", "c", "c", "e", "s", "s", "o", "i", "r", "e">>

\* Poids.PrixAdh.EURHT gave Poids
C8_WitnessPoids ==
    /\ pc = "type"
    /\ Len(ret) = 1
    /\ call = <<"P", "o", "i", "d", "s", ".", "P", "r", "i", "x", "A", "d", "h", ".", "EUR", "H", "T">>
    /\ ret[1] = T_Poids

----------------------------------------------------------------------------
(* A run of build_data: the file systems and workbooks it starts from *)

T_tarif_xlsx == <<"t", "a", "r", "i", "f", ".", "x", "l", "s", "x">>
T_lock_xlsx == <<"~", "$", "t", "a", "r", "i", "f", ".", "x", "l", "s", "x">>
T_other_xlsx == <<"a", "n", "c", "i", "e", "n", ".", "x", "l", "s", "x">>
T_notes_txt == <<"n", "o", "t", "e", "s", ".", "t", "x", "t">>

\* the structural sheets, filled
FilledStructuralSheets ==
    << [name |-> <<"G", "R", "A", "N", "I", "T", "S">>,
         sheet_state |-> "visible",
         header |-> <<>>,
         rows |-> << <<IntCell(12), TextCell(<<"G", "r", "a", "n", "i", "t", " ", "N", "o", "i", "r">>), TextCell(<<"I", "n", "d", "e">>)>>,
                    <<Null, TextCell(<<"S", "a", "n", "s", " ", "c", "o", "d", "e">>), Null>> >>],
       [name |-> <<"P", "o", "i", "d", "s">>,
         sheet_state |-> "visible",
         header |-> <<>>,
         rows |-> << <<Null, TextCell(<<"R", "E", "F", "-", "A">>), FloatCell(12345, 0)>>,
                    <<Null, TextCell(<<"R", "E", "F", "-", "B">>), IntCell(0)>> >>],
       [name |-> <<"T", "a", "r", "i", "f", " ", "T", "F", "r", "a", "n", "c", "o">>,
         sheet_state |-> "visible",
         header |-> <<>>,
         rows |-> << <<TextCell(<<"Z", "o", "n", "e", " ", "1">>), IntCell(100), IntCell(200), Null, IntCell(0), IntCell(400), IntCell(50)>>,
                    <<TextCell(<<"T", "o", "t", "a", "l">>), IntCell(1), IntCell(1), IntCell(1), IntCell(1), IntCell(1), IntCell(1)>> >>],
       [name |-> <<"Z", "o", "n", "e", ".", "T", "F", "r", "a", "n", "c", "o">>,
         sheet_state |-> "visible",
         header |-> <<>>,
         rows |-> << <<IntCell(1), IntCell(2), Null, Null, Null, IntCell(75)>>,
                    <<IntCell(2), Null, Null, Null, Null, Null>> >>],
       [name |-> <<"L", "I", "S", "T", "E", "S">>,
         sheet_state |-> "hidden",
         header |-> <<>>,
         rows |-> << <<IntCell(1), TextCell(<<"Z", "o", "n", "e", " ", "1">>), TextCell(<<"M", "o", "n", "u", "m", "e", "n", "t">>), TextCell(<<"C", "l", "a", "s", "s", "i", "q", "u", "e">>), TextCell(<<"V", "a", "s", "e">>)>>,
                    <<IntCell(1), TextCell(<<"Z", "o", "n", "e", " ", "2">>), TextCell(<<"Z", "e", "t", "a">>), TextCell(<<"C", "l", "a", "s", "s", "i", "q", "u", "e">>), Null>> >>] >>

\* the structural sheets, with a header row only
EmptyStructuralSheets ==
    << [name |-> <<"G", "R", "A", "N", "I", "T", "S">>,
         sheet_state |-> "visible",
         header |-> <<>>,
         rows |-> <<>>],
       [name |-> <<"P", "o", "i", "d", "s">>,
         sheet_state |-> "visible",
         header |-> <<>>,
         rows |-> <<>>],
       [name |-> <<"T", "a", "r", "i", "f", " ", "T", "F", "r", "a", "n", "c", "o">>,
         sheet_state |-> "visible",
         header |-> <<>>,
         rows |-> <<>>],
       [name |-> <<"Z", "o", "n", "e", ".", "T", "F", "r", "a", "n", "c", "o">>,
         sheet_state |-> "visible",
         header |-> <<>>,
         rows |-> <<>>],
       [name |-> <<"L", "I", "S", "T", "E", "S">>,
         sheet_state |-> "hidden",
         header |-> <<>>,
         rows |-> <<>>] >>

\* a workbook without its LISTES sheet
NoListesSheets ==
    << [name |-> <<"G", "R", "A", "N", "I", "T", "S">>,
         sheet_state |-> "visible",
         header |-> <<>>,
         rows |-> << <<IntCell(12), TextCell(<<"G", "r", "a", "n", "i", "t", " ", "N", "o", "i", "r">>), TextCell(<<"I", "n", "d", "e">>)>>,
                    <<Null, TextCell(<<"S", "a", "n", "s", " ", "c", "o", "d", "e">>), Null>> >>],
       [name |-> <<"P", "o", "i", "d", "s">>,
         sheet_state |-> "visible",
         header |-> <<>>,
         rows |-> << <<Null, TextCell(<<"R", "E", "F", "-", "A">>), FloatCell(12345, 0)>>,
                    <<Null, TextCell(<<"R", "E", "F", "-", "B">>), IntCell(0)>> >>],
       [name |-> <<"T", "a", "r", "i", "f", " ", "T", "F", "r", "a", "n", "c", "o">>,
         sheet_state |-> "visible",
         header |-> <<>>,
         rows |-> << <<TextCell(<<"Z", "o", "n", "e", " ", "1">>), IntCell(100), IntCell(200), Null, IntCell(0), IntCell(400), IntCell(50)>>,
                    <<TextCell(<<"T", "o", "t", "a", "l">>), IntCell(1), IntCell(1), IntCell(1), IntCell(1), IntCell(1), IntCell(1)>> >>],
       [name |-> <<"Z", "o", "n", "e", ".", "T", "F", "r", "a", "n", "c", "o">>,
         sheet_state |-> "visible",
         header |-> <<>>,
         rows |-> << <<IntCell(1), IntCell(2), Null, Null, Null, IntCell(75)>>,
                    <<IntCell(2), Null, Null, Null, Null, Null>> >>] >>

ProductSheetPool ==
    {[name |-> <<"M", "o", "n", "u", "m", "e", "n", "t", ".", "P", "r", "i", "x", "A", "d", "h", ".", "EUR", "H", "T">>,
         sheet_state |-> "visible",
         header |-> <<TextCell(<<"L", "i", "g", "n", "e">>), TextCell(<<"R", "e_acute", "f", "e_acute", "r", "e", "n", "c", "e">>), TextCell(<<"I", "/", "C">>), TextCell(<<"C", "o", "d", "e", " ", "g", "r", "a", "n", "i", "t">>), TextCell(<<"G", "r", "a", "n", "i", "t">>), TextCell(<<"P", "r", "i", "x", " ", "H", "T">>), TextCell(<<"S", "e", "m", " ", "1", "3", "0">>), TextCell(<<"S", "e", "m", " ", "1", "4", "0">>), TextCell(<<"S", "e", "m", " ", "1", "5", "0">>)>>,
         rows |-> << <<TextCell(<<"C", "l", "a", "s", "s", "i", "q", "u", "e">>), TextCell(<<"R", "E", "F", " ", "-", " ", "A">>), TextCell(<<"I">>), IntCell(12), TextCell(<<"N", "o", "i", "r">>), FloatCell(12505000, 0), Null, IntCell(1300), Null>>,
                    <<TextCell(<<"C", "l", "a", "s", "s", "i", "q", "u", "e">>), TextCell(<<"R", "E", "F", "-", "B">>), TextCell(<<"C">>), Null, Null, Null, Null, Null, Null>>,
                    <<TextCell(<<"C", "l", "a", "s", "s", "i", "q", "u", "e">>), Null, TextCell(<<"C">>), IntCell(12), TextCell(<<"N", "o", "i", "r">>), IntCell(990), Null, Null, Null>>,
                    <<Null, TextCell(<<"R", "E", "F", "-", "C">>), Null, Null, Null, IntCell(0), Null, Null, Null>> >>],
     [name |-> <<"M", "o", "n", "u", "m", "e", "n", "t", "s", ".", "P", "r", "i", "x", "A", "d", "h", ".", "EUR", "H", "T">>,
         sheet_state |-> "visible",
         header |-> <<TextCell(<<"L", "i", "g", "n", "e">>), TextCell(<<"R", "e_acute", "f", "e_acute", "r", "e", "n", "c", "e">>), TextCell(<<"I", "/", "C">>), TextCell(<<"C", "o", "d", "e", " ", "g", "r", "a", "n", "i", "t">>), TextCell(<<"G", "r", "a", "n", "i", "t">>), TextCell(<<"P", "r", "i", "x", " ", "H", "T">>), TextCell(<<"S", "e", "m", " ", "1", "3", "0">>), TextCell(<<"S", "e", "m", " ", "1", "4", "0">>), TextCell(<<"S", "e", "m", " ", "1", "5", "0">>)>>,
         rows |-> <<>>],
     [name |-> <<"S", "e", "m", "e", "l", "l", "e", "s", ".", "P", "r", "i", "x", "A", "d", "h", ".", "EUR", "H", "T">>,
         sheet_state |-> "visible",
         header |-> <<Null, TextCell(<<"R", "e_acute", "f", "e_acute", "r", "e", "n", "c", "e">>), TextCell(<<"I", "/", "C">>), TextCell(<<"C", "o", "d", "e", " ", "g", "r", "a", "n", "i", "t">>), TextCell(<<"G", "r", "a", "n", "i", "t">>), TextCell(<<"P", "r", "i", "x", " ", "H", "T">>)>>,
         rows |-> << <<Null, TextCell(<<"S", "E", "M", "-", "1">>), TextCell(<<"I">>), IntCell(12), TextCell(<<"N", "o", "i", "r">>), FloatCell(999990, 0)>>,
                    <<Null, TextCell(<<" ", " ">>), TextCell(<<"I">>), IntCell(12), TextCell(<<"N", "o", "i", "r">>), IntCell(10)>> >>],
     [name |-> <<"A", "c", "c", "e", "s", "s", "o", "i", "r", "e", "s", ".", "P", "r", "i", "x", "A", "d", "h", ".", "EUR", "H", "T">>,
         sheet_state |-> "visible",
         header |-> <<Null, TextCell(<<"T", "y", "p", "e">>), TextCell(<<"R", "e_acute", "f", "e_acute", "r", "e", "n", "c", "e">>), TextCell(<<"I", "/", "C">>), TextCell(<<"C", "o", "d", "e", " ", "g", "r", "a", "n", "i", "t">>), TextCell(<<"G", "r", "a", "n", "i", "t">>), TextCell(<<"P", "r", "i", "x", " ", "H", "T">>)>>,
         rows |-> << <<Null, TextCell(<<"V", "a", "s", "e">>), TextCell(<<"R", "E", "F", "-", "A">>), TextCell(<<"I">>), IntCell(12), TextCell(<<"N", "o", "i", "r">>), IntCell(45)>>,
                    <<Null, TextCell(<<"V", "a", "s", "e">>), TextCell(<<"V", "-", "2">>), TextCell(<<"I">>), IntCell(12), TextCell(<<"N", "o", "i", "r">>), Null>> >>],
     [name |-> <<"G", "r", "a", "v", "u", "r", "e", "s", ".", "P", "r", "i", "x", "A", "d", "h", ".", "EUR", "H", "T">>,
         sheet_state |-> "visible",
         header |-> <<Null, TextCell(<<"R", "e_acute", "f", "e_acute", "r", "e", "n", "c", "e">>), TextCell(<<"P", "r", "i", "x", " ", "c", "a", "r", "a", "c", "t", "e_grave", "r", "e", " ", "H", "T">>)>>,
         rows |-> << <<Null, TextCell(<<"G", "R", "-", "1">>), FloatCell(15000, 0)>>,
                    <<Null, Null, IntCell(2)>> >>],
     [name |-> <<"L", "i", "t", "h", "o", ".", "P", "r", "i", "x", "A", "d", "h", ".", "EUR", "H", "T">>,
         sheet_state |-> "visible",
         header |-> <<TextCell(<<"R", "e_acute", "f", "e_acute", "r", "e", "n", "c", "e">>), TextCell(<<"T", "y", "p", "e">>), TextCell(<<"P", "r", "i", "x", " ", "H", "T">>)>>,
         rows |-> << <<TextCell(<<"L", "I", "-", "1">>), TextCell(<<"P", "l", "a", "q", "u", "e">>), IntCell(30)>>,
                    <<Null, TextCell(<<"P", "l", "a", "q", "u", "e">>), IntCell(35)>>,
                    <<TextCell(<<"L", "I", "-", "3">>), TextCell(<<"P", "l", "a", "q", "u", "e">>), Null>>,
                    <<Null, Null, Null>> >>],
     [name |-> <<"U", "r", "n", "e", "s", ".", "P", "r", "i", "x", "A", "d", "h", ".", "EUR", "H", "T">>,
         sheet_state |-> "hidden",
         header |-> <<TextCell(<<"R", "e_acute", "f", "e_acute", "r", "e", "n", "c", "e">>), TextCell(<<"P", "r", "i", "x", " ", "H", "T">>)>>,
         rows |-> << <<TextCell(<<"U", "R", "-", "1">>), IntCell(150)>> >>],
     [name |-> <<"G", "r", "a", "n", "i", "t", ".", "P", "r", "i", "x", "A", "d", "h", ".", "EUR", "H", "T">>,
         sheet_state |-> "visible",
         header |-> <<TextCell(<<"C", "o", "d", "e", " ", "g", "r", "a", "n", "i", "t">>), TextCell(<<"G", "r", "a", "n", "i", "t">>), TextCell(<<"P", "r", "i", "x", " ", "H", "T">>)>>,
         rows |-> << <<IntCell(12), TextCell(<<"N", "o", "i", "r">>), IntCell(80)>> >>],
     [name |-> <<"T", "y", "p", "e", ".", "P", "r", "i", "x", "A", "d", "h", ".", "EUR", "H", "T">>,
         sheet_state |-> "visible",
         header |-> <<TextCell(<<"R", "e", "f", "e", "r", "e", "n", "c", "e">>), TextCell(<<"P", "r", "i", "x">>)>>,
         rows |-> << <<TextCell(<<"T", "Y", "-", "1">>), IntCell(5)>> >>],
     [name |-> <<"(", "A", "r", "c", "h", "i", "v", "e", ".", "P", "r", "i", "x", "A", "d", "h", ".", "EUR", "H", "T", ")">>,
         sheet_state |-> "visible",
         header |-> <<TextCell(<<"R", "e_acute", "f", "e_acute", "r", "e", "n", "c", "e">>), TextCell(<<"P", "r", "i", "x", " ", "H", "T">>)>>,
         rows |-> << <<TextCell(<<"O", "L", "D", "-", "1">>), IntCell(1)>> >>],
     [name |-> <<"N", "o", "t", "e", "s">>,
         sheet_state |-> "visible",
         header |-> <<>>,
         rows |-> << <<TextCell(<<"m", "e", "m", "o">>)>> >>]}

\* the lists of at most n sheets of the pool, no two of the same name
RECURSIVE ProductSheetLists(_)
ProductSheetLists(n) ==
    IF n = 0 THEN {<<>>}
    ELSE LET shorter == ProductSheetLists(n - 1)
         IN  shorter \cup
             {Append(w, sh) : w \in {x \in shorter : Len(x) = n - 1},
                              sh \in ProductSheetPool}

RunWorkbooks ==
    {st \o ps : st \in {FilledStructuralSheets, EmptyStructuralSheets},
                 ps \in {w \in ProductSheetLists(MaxProductSheets) : DistinctNames(w)}}
    \cup {NoListesSheets}

NoPhotoTree == [photo_dirs |-> {}, photos |-> {}, case_insensitive |-> FALSE]

PhotoTrees ==
    {NoPhotoTree,
     [photo_dirs |-> {K_monuments, K_granits, K_lithos},
      case_insensitive |-> TRUE,
      photos |-> {[dir |-> K_monuments, file |-> <<"R", "E", "F", "-", "A", ".", "j", "p", "e", "g">>],
                  [dir |-> K_monuments, file |-> <<"R", "E", "F", "-", "A", ".", "p", "n", "g">>],
                  [dir |-> K_granits, file |-> <<"1", "2", "-", "g", "r", "a", "n", "i", "t", "-", "n", "o", "i", "r", ".", "j", "p", "g">>],
                  [dir |-> K_lithos, file |-> <<"L", "I", "-", "1", ".", "p", "n", "g">>]}]}

FileSystem(dir, files, w, tree) ==
    [excel_dir |-> dir, excel_files |-> files, workbook |-> w,
     photo_dirs |-> tree.photo_dirs, photos |-> tree.photos,
     case_insensitive |-> tree.case_insensitive,
     output_written |-> FALSE, output |-> <<>>, made_dirs |-> {}]

\* the file systems find_excel stops on: no excel/, or no workbook in it
FileSystemsWithoutExcel ==
    {FileSystem(FALSE, <<>>, <<>>, tree) : tree \in PhotoTrees}
    \cup {FileSystem(TRUE, files, <<>>, tree) :
             files \in {<<>>, <<T_notes_txt>>, <<T_lock_xlsx>>, <<T_lock_xlsx, T_notes_txt>>},
             tree \in PhotoTrees}

\* one workbook and no photos, or several files and photos
FileSystemsWithExcel ==
    {FileSystem(TRUE, <<T_tarif_xlsx>>, w, NoPhotoTree) :
        w \in RunWorkbooks}
    \cup {FileSystem(TRUE, <<T_lock_xlsx, T_tarif_xlsx, T_other_xlsx>>, w, tree) :
             w \in RunWorkbooks, tree \in PhotoTrees \ {NoPhotoTree}}


----------------------------------------------------------------------------
(* A run of build_data, step by step *)

Init ==
    /\ pc = "start"
    /\ fs \in FileSystemsWithoutExcel \cup FileSystemsWithExcel
    /\ excel_path = <<>>
    /\ wb = <<>>
    /\ structural = <<>>
    /\ product_tabs = <<>>
    /\ tab_idx = 0
    /\ data = <<>>
    /\ reads = <<>>
    /\ call = <<>>
    /\ ret = <<>>

\* find_excel finds no directory or no workbook: sys.exit(1)
FindExcelExit ==
    /\ pc = "start"
    /\ find_excel_exits(fs)
    /\ pc' = "exit"
    /\ UNCHANGED <<mainVars, call, ret>>

\* excel_path = find_excel()
FindExcel ==
    /\ pc = "start"
    /\ ~find_excel_exits(fs)
    /\ excel_path' = find_excel(fs)
    /\ pc' = "load"
    /\ UNCHANGED <<fs, wb, structural, product_tabs, tab_idx, data, reads, call, ret>>

\* wb = openpyxl.load_workbook(excel_path, data_only=True)
LoadWorkbook ==
    /\ pc = "load"
    /\ wb' = fs.workbook
    /\ pc' = "structural"
    /\ UNCHANGED <<fs, excel_path, structural, product_tabs, tab_idx, data, reads, call, ret>>

HasStructuralSheets(w) == \A name \in FIXED_TABS : HasSheet(w, name)

\* the five structural readers
ReadStructural ==
    /\ pc = "structural"
    /\ HasStructuralSheets(wb)
    /\ structural' =
          LET listes == read_listes(Sheet(wb, T_LISTES).rows)
          IN  [granits |-> read_granits(fs, wb),
               poids |-> read_poids(wb),
               zones_transport |-> read_zones_transport(Sheet(wb, T_ZoneTFranco).rows),
               tarifs_transport |-> read_tarifs_transport(wb),
               types_list |-> listes.types_list,
               lignes_monument |-> listes.lignes_monument,
               lignes_accessoire |-> listes.lignes_accessoire,
               departements |-> listes.departements]
    /\ pc' = "detect"
    /\ UNCHANGED <<fs, excel_path, wb, product_tabs, tab_idx, data, reads, call, ret>>

\* wb[name] of a structural sheet the workbook lacks: KeyError
ReadStructuralKeyError ==
    /\ pc = "structural"
    /\ ~HasStructuralSheets(wb)
    /\ pc' = "error"
    /\ UNCHANGED <<mainVars, call, ret>>

\* product_tabs = detect_product_tabs(wb); data = {"granits": granits}
DetectTabs ==
    /\ pc = "detect"
    /\ product_tabs' = detect_product_tabs(wb)
    /\ data' = <<[k |-> K_granits, v |-> ObjList(structural.granits)]>>
    /\ tab_idx' = 1
    /\ pc' = "loop"
    /\ UNCHANGED <<fs, excel_path, wb, structural, reads, call, ret>>

\* one turn of the loop over product_tabs: read the tab, data[key] = items
ReadProductTab ==
    /\ pc = "loop"
    /\ tab_idx <= Len(product_tabs)
    /\ LET tab_name == product_tabs[tab_idx]
           product_type == extract_product_type(tab_name)
           items == read_product_tab(fs, wb, tab_name, product_type)
           key == product_key(product_type)
       IN  /\ data' = DictSet(data, key, ObjList(items))
           /\ reads' = Append(reads, [tab_name |-> tab_name, product_type |-> product_type,
                                       key |-> key, items |-> items])
    /\ tab_idx' = tab_idx + 1
    /\ UNCHANGED <<pc, fs, excel_path, wb, structural, product_tabs, call, ret>>

\* the expected keys still absent get an empty list
FillExpectedKeys ==
    /\ pc = "loop"
    /\ tab_idx > Len(product_tabs)
    /\ data' = fill_expected_keys(data)
    /\ pc' = "merge"
    /\ UNCHANGED <<fs, excel_path, wb, structural, product_tabs, tab_idx, reads, call, ret>>

\* the structural results go under their keys
MergeStructural ==
    /\ pc = "merge"
    /\ data' = merge_structural(data, structural)
    /\ pc' = "write"
    /\ UNCHANGED <<fs, excel_path, wb, structural, product_tabs, tab_idx, reads, call, ret>>

\* json.dump(data, f) to data.json
WriteJson ==
    /\ pc = "write"
    /\ fs' = [fs EXCEPT !.output_written = TRUE, !.output = data]
    /\ pc' = "photos"
    /\ UNCHANGED <<excel_path, wb, structural, product_tabs, tab_idx, data, reads, call, ret>>

\* the missing photo sub-directories are created
MakePhotoDirs ==
    /\ pc = "photos"
    /\ LET subdirs == photo_subdirs(product_tabs)
           missing == {subdirs[i] : i \in {j \in 1..Len(subdirs) : ~IsDir(fs, subdirs[j])}}
       IN  fs' = [fs EXCEPT !.photo_dirs = fs.photo_dirs \cup missing,
                            !.made_dirs = fs.made_dirs \cup missing]
    /\ pc' = "done"
    /\ UNCHANGED <<excel_path, wb, structural, product_tabs, tab_idx, data, reads, call, ret>>

Next ==
    \/ FindExcelExit
    \/ FindExcel
    \/ LoadWorkbook
    \/ ReadStructural
    \/ ReadStructuralKeyError
    \/ DetectTabs
    \/ ReadProductTab
    \/ FillExpectedKeys
    \/ MergeStructural
    \/ WriteJson
    \/ MakePhotoDirs

Spec == Init /\ [][Next]_vars

----------------------------------------------------------------------------
(* The claims about a run of build_data *)

T_MonumentType == <<"M", "o", "n", "u", "m", "e", "n", "t">>
T_SemelleType == <<"S", "e", "m", "e", "l", "l", "e">>
T_AccessoireType == <<"A", "c", "c", "e", "s", "s", "o", "i", "r", "e">>
T_GravureType == <<"G", "r", "a", "v", "u", "r", "e">>

\* the document is assembled: data holds it, and data.json once written
Assembled == pc \in {"write", "photos", "done"}

\* the sheets of the workbook that are product tabs stored under key k
TabsOfKey(k) ==
    {i \in 1..Len(wb) :
        IsProductTab(wb[i]) /\ product_key(extract_product_type(wb[i].name)) = k}

\* C1: whatever the sheets of the workbook, the document build_data produces
\* holds each of the six keys monuments, semelles, accessoires, gravures,
\* lithos and urnes, each with a list; the list is empty when no product tab
\* of the key exists or all of them have no rows.
C1_ExpectedKeysAlwaysPresent ==
    /\ Assembled =>
          \A n \in 1..Len(ExpectedKeys) :
              LET k == ExpectedKeys[n]
              IN  /\ HasKey(data, k)
                  /\ DOMAIN Get(data, k) = {"objs"}
                  /\ (\A i \in TabsOfKey(k) : wb[i].rows = <<>>) => Get(data, k).objs = <<>>
    /\ fs.output_written =>
          \A n \in 1..Len(ExpectedKeys) :
              /\ HasKey(fs.output, ExpectedKeys[n])
              /\ DOMAIN Get(fs.output, ExpectedKeys[n]) = {"objs"}

\* the run ended with a product tab of zero rows and no tab at all for urnes:
\* both keys hold the empty list in data.json
C1_Witness ==
    /\ pc = "done"
    /\ \E i \in TabsOfKey(K_monuments) : wb[i].rows = <<>>
    /\ TabsOfKey(K_urnes) = {}
    /\ Get(fs.output, K_monuments) = ObjList(<<>>)
    /\ Get(fs.output, K_urnes) = ObjList(<<>>)

\* the run ended on a workbook without any product tab
C1_WitnessNoTabs ==
    /\ pc = "done"
    /\ product_tabs = <<>>
    /\ Len(wb) > Cardinality(FIXED_TABS)
    /\ \A n \in 1..Len(ExpectedKeys) : Get(fs.output, ExpectedKeys[n]) = ObjList(<<>>)

StructuralKeys ==
    {K_granits, K_poids, K_zones_transport, K_tarifs_transport, K_departements,
     K_types, K_lignes_monument, K_lignes_accessoire}

HasReference(item) == "reference" \in DOMAIN item /\ Len(item.reference) > 0

HasPrice(item) ==
    \/ "prix_ht" \in DOMAIN item /\ ~IsNull(item.prix_ht)
    \/ "prix_caractere_ht" \in DOMAIN item /\ ~IsNull(item.prix_caractere_ht)

\* C3 as stated: every item of every per-product-type list of the document,
\* the generic reader's lists included, has a non-empty reference and a
\* non-null price.
C3_EveryItemHasRefAndPrice ==
    fs.output_written =>
        \A n \in 1..Len(fs.output) :
            fs.output[n].k \notin StructuralKeys =>
                \A i \in 1..Len(fs.output[n].v.objs) :
                    /\ HasReference(fs.output[n].v.objs[i])
                    /\ HasPrice(fs.output[n].v.objs[i])

SpecialisedTypes == {T_MonumentType, T_SemelleType, T_AccessoireType, T_GravureType}

\* the columns of the reference and the price in a specialised reader's layout
RefColumn(product_type) == IF product_type = T_AccessoireType THEN 3 ELSE 2

PriceColumn(product_type) ==
    IF product_type = T_AccessoireType THEN 7
    ELSE IF product_type = T_GravureType THEN 3
    ELSE 6

\* C3, amended: every item returned by the four specialised readers
\* (read_monuments, read_semelles, read_accessoires, read_gravures) has a
\* non-empty reference and a non-null price, one item per row that holds
\* both; the generic reader (lithos, urnes, any other type) emits a row as
\* soon as one header matched, with or without a reference or a price.
C3_SpecialisedItemsHaveRefAndPrice ==
    \A n \in 1..Len(reads) :
        reads[n].product_type \in SpecialisedTypes =>
            LET rows == Sheet(wb, reads[n].tab_name).rows
                full == {i \in 1..Len(rows) :
                            /\ Truthy(cell_val(rows[i][RefColumn(reads[n].product_type)]))
                            /\ ~IsNull(cell_val(rows[i][PriceColumn(reads[n].product_type)]))}
            IN  /\ Len(reads[n].items) = Cardinality(full)
                /\ \A i \in 1..Len(reads[n].items) :
                      /\ HasReference(reads[n].items[i])
                      /\ HasPrice(reads[n].items[i])

\* the monument tab was read: of its rows, those lacking a reference or a
\* price gave no item, and the generic reader gave an item without reference
C3_Witness ==
    /\ \E n \in 1..Len(reads) :
          /\ reads[n].product_type = T_MonumentType
          /\ Len(Sheet(wb, reads[n].tab_name).rows) > Len(reads[n].items)
          /\ Len(reads[n].items) > 0
    /\ \E n \in 1..Len(reads) :
          /\ reads[n].product_type \notin SpecialisedTypes
          /\ \E i \in 1..Len(reads[n].items) : ~HasReference(reads[n].items[i])

\* C5: the final document holds the structural readers' results under their
\* fixed keys (granits, poids, zones_transport, tarifs_transport, departements,
\* types, lignes_monument, lignes_accessoire); no product tab's items replace
\* any of them.
C5_StructuralUnderFixedKeys ==
    fs.output_written =>
        /\ Get(fs.output, K_poids) = Mapping(structural.poids)
        /\ Get(fs.output, K_zones_transport) = Mapping(structural.zones_transport)
        /\ Get(fs.output, K_tarifs_transport) = ObjList(structural.tarifs_transport)
        /\ Get(fs.output, K_departements) = ObjList(structural.departements)
        /\ Get(fs.output, K_types) = StrList(structural.types_list)
        /\ Get(fs.output, K_lignes_monument) = StrList(structural.lignes_monument)
        /\ Get(fs.output, K_lignes_accessoire) = StrList(structural.lignes_accessoire)
        /\ Get(fs.output, K_granits) = ObjList(structural.granits)

\* the key the claim gives a product type
ClaimedKey(product_type) ==
    CASE product_type = T_MonumentType -> K_monuments
      [] product_type = T_SemelleType -> K_semelles
      [] product_type = T_AccessoireType -> K_accessoires
      [] product_type = T_GravureType -> K_gravures
      [] OTHER -> Lower(product_type) \o <<"s">>

\* C6: after all tabs have been processed, the final document holds for every
\* classified product tab, under that tab's key (monuments, semelles,
\* accessoires, gravures, or lowercased type plus 's'), the item list that the
\* reader of its type returned for that tab.
C6_EveryTabUnderItsKey ==
    fs.output_written =>
        /\ Len(reads) = Len(product_tabs)
        /\ \A n \in 1..Len(product_tabs) :
              /\ reads[n].tab_name = product_tabs[n]
              /\ reads[n].key = ClaimedKey(extract_product_type(product_tabs[n]))
              /\ HasKey(fs.output, reads[n].key)
              /\ Get(fs.output, reads[n].key) = ObjList(reads[n].items)

\* a workbook is found: excel/ exists and holds a .xlsx file that is no lock file
WorkbookFound ==
    /\ fs.excel_dir
    /\ \E i \in 1..Len(fs.excel_files) :
          LET n == fs.excel_files[i]
          IN  /\ Len(n) >= 5
              /\ SubSeq(n, Len(n) - 4, Len(n)) = T_xlsx
              /\ n[1] # "~"

\* C7: without an input directory or a matching .xlsx file the run stops in
\* find_excel: no workbook is read, data.json is not written and no photo
\* directory is created; data.json is written only in runs where find_excel
\* returned a path.
C7_NoOutputWithoutWorkbook ==
    /\ ~WorkbookFound =>
          /\ pc \in {"start", "exit"}
          /\ excel_path = <<>>
          /\ wb = <<>>
          /\ structural = <<>>
          /\ ~fs.output_written
          /\ fs.made_dirs = {}
    /\ pc = "exit" => ~WorkbookFound
    /\ (fs.output_written \/ fs.made_dirs # {}) => (WorkbookFound /\ excel_path # <<>>)

\* the run stopped in find_excel on a directory holding only a lock file
C7_Witness ==
    /\ pc = "exit"
    /\ fs.excel_dir
    /\ fs.excel_files = <<T_lock_xlsx>>
    /\ ~fs.output_written

\* the run stopped in find_excel for want of the directory
C7_WitnessNoDir ==
    /\ pc = "exit"
    /\ ~fs.excel_dir

\* a run that found its workbook wrote data.json and created photo directories
C7_WitnessWritten ==
    /\ pc = "done"
    /\ fs.output_written
    /\ fs.made_dirs # {}

----------------------------------------------------------------------------
(* read_listes on column C of LISTES: the list of types *)

MaxTypeRows == 3

T_Semelle == <<"S", "e", "m", "e", "l", "l", "e">>
T_Urne == <<"U", "r", "n", "e">>
T_Litho == <<"L", "i", "t", "h", "o">>
T_plaque == <<"p", "l", "a", "q", "u", "e">>
T_Etui == <<"E_acute", "t", "u", "i">>
T_monument_lower == <<"m", "o", "n", "u", "m", "e", "n", "t">>

\* the cells of column C: labels of type_order, other labels in either case and
\* with an accent, a label with blanks around it, numbers, an empty cell
TypeCells ==
    {Null, TextCell(T_Monument), TextCell(T_Semelle), TextCell(T_Urne), TextCell(T_Litho),
     TextCell(T_Vase), TextCell(<<" ">> \o T_Vase \o <<" ">>), TextCell(T_plaque),
     TextCell(T_Etui), TextCell(T_monument_lower), IntCell(12), IntCell(0)}

TypeRows == {<<Null, Null, typ, Null, Null>> : typ \in TypeCells}

InitTypes ==
    /\ pc = "listes"
    /\ call \in SeqsUpTo(TypeRows, MaxTypeRows)
    /\ ret = <<>>
    /\ NoRun

SpecTypes == InitTypes /\ [][ReadListes]_vars

\* the labels observed: str() of the cells of column C that are true (an empty
\* cell and the number 0 are no label)
TypesObserved ==
    {PyStr(cell_val(call[i][3])) : i \in {j \in 1..Len(call) : Truthy(cell_val(call[j][3]))}}

CanonicalTypes == {type_order[i] : i \in 1..Len(type_order)}

TypeOrderIndex(t) == CHOOSE i \in 1..Len(type_order) : type_order[i] = t

\* types_list holds each label of the set once, those of type_order first and
\* in its order, then the others so that before(a, b) holds of neighbours a, b
TypesListOf(types_list, labels, before(_, _)) ==
    /\ {types_list[i] : i \in 1..Len(types_list)} = labels
    /\ Len(types_list) = Cardinality(labels)
    /\ \A i, j \in 1..Len(types_list) :
          i < j =>
             \/ /\ types_list[i] \in CanonicalTypes
                /\ types_list[j] \in CanonicalTypes
                /\ TypeOrderIndex(types_list[i]) < TypeOrderIndex(types_list[j])
             \/ /\ types_list[i] \in CanonicalTypes
                /\ types_list[j] \notin CanonicalTypes
             \/ /\ types_list[i] \notin CanonicalTypes
                /\ types_list[j] \notin CanonicalTypes
                /\ before(types_list[i], types_list[j])

\* alphabetical order: letter by letter, whatever the case and the accents
AlphaKey(s) == [i \in 1..Len(s) |-> Unaccent(LowerChar(s[i]))]

AlphaBefore(a, b) == ~StrLess(AlphaKey(b), AlphaKey(a))

C11_WitnessCanonical ==
    /\ pc = "listes"
    /\ Len(ret) = 1
    /\ Len(call) = 2
    /\ call[1][3] = TextCell(T_Litho)
    /\ call[2][3] = TextCell(T_Semelle)
    /\ ret[1].types_list = <<T_Semelle, T_Litho>>

----------------------------------------------------------------------------
(* read_generic_product on a sheet of two columns *)

MaxGenericRows == 1

T_LithoTab == <<"L", "i", "t", "h", "o", ".", "P", "r", "i", "x", "A", "d", "h", ".", "EUR", "H", "T">>
T_LI1 == <<"L", "I", "-", "1">>

\* header cells under which the code takes str() of the value
TextHeaders ==
    {Null,
     TextCell(<<"R", "e_acute", "f", "e_acute", "r", "e", "n", "c", "e">>),
     TextCell(<<"T", "y", "p", "e">>),
     TextCell(<<"L", "i", "g", "n", "e">>),
     TextCell(<<"I", "/", "C">>),
     TextCell(<<"O", "r", "i", "g", "i", "n", "e">>),
     TextCell(<<"G", "r", "a", "n", "i", "t">>),
     TextCell(<<"T", "y", "p", "e", " ", "d", "e", " ", "r", "e_acute", "f", "e_acute", "r", "e", "n", "c", "e">>),
     TextCell(<<"O", "r", "i", "g", "i", "n", "e", " ", "g", "r", "a", "n", "i", "t">>),
     TextCell(<<"P", "r", "i", "x", " ", "d", "u", " ", "g", "r", "a", "n", "i", "t">>),
     TextCell(<<"N", "o", "t", "e", "s">>)}

\* header cells under which the code takes int() or clean_number() of the value
NumberHeaders ==
    {TextCell(<<"C", "o", "d", "e", " ", "g", "r", "a", "n", "i", "t">>),
     TextCell(<<"P", "r", "i", "x", " ", "c", "a", "r", "a", "c", "t", "e_grave", "r", "e", " ", "H", "T">>),
     TextCell(<<" ", "P", "R", "I", "X", " ", "C", "A", "R", "A", "C", "T", "E", "R", "E", " ">>),
     TextCell(<<"P", "r", "i", "x", " ", "H", "T">>)}

\* a column: its header cell and its cells of the rows; text stands only where
\* the code does not convert it to a number
GenericColumns(n) ==
    {<<h>> \o cells :
        h \in TextHeaders,
        cells \in [1..n -> {Null, IntCell(12), IntCell(0), TextCell(T_LI1)}]}
    \cup
    {<<h>> \o cells :
        h \in NumberHeaders, cells \in [1..n -> {Null, IntCell(12), IntCell(0)}]}

\* the sheet of two columns
GenericSheet(a, b) ==
    [name |-> T_LithoTab, sheet_state |-> "visible",
     header |-> <<a[1], b[1]>>,
     rows |-> [i \in 1..(Len(a) - 1) |-> <<a[i + 1], b[i + 1]>>]]

\* photos/lithos holds LI-1.png
GenericPhotoTree ==
    [photo_dirs |-> {K_lithos}, case_insensitive |-> FALSE,
     photos |-> {[dir |-> K_lithos, file |-> T_LI1 \o <<".", "p", "n", "g">>]}]

InitGeneric ==
    /\ pc = "generic"
    /\ \E n \in 1..MaxGenericRows :
          call \in {<<GenericSheet(a, b)>> : a, b \in GenericColumns(n)}
    /\ ret = <<>>
    /\ NoRun

\* items = read_generic_product(wb, tab_name, product_type)
ReadGenericProduct ==
    /\ pc = "generic"
    /\ ret = <<>>
    /\ ret' = <<read_generic_product(GenericPhotoTree, call, T_LithoTab,
                                     extract_product_type(T_LithoTab))>>
    /\ UNCHANGED <<pc, call, mainVars>>

SpecGeneric == InitGeneric /\ [][ReadGenericProduct]_vars

\* the header text the rules look at
HeaderText(h) ==
    IF Truthy(cell_val(h)) THEN Strip(Lower(PyStr(cell_val(h)))) ELSE <<>>

\* the fields in the priority order of the rules
RuleFields ==
    <<"reference", "type", "ligne", "origine", "code_granit", "granit",
      "prix_caractere_ht", "prix_ht">>

\* the rule of field RuleFields[k] matches header text h
RuleMatches(k, h) ==
    CASE k = 1 -> Contains(h, H_reference_acute) \/ Contains(h, H_reference)
      [] k = 2 -> Contains(h, H_type)
      [] k = 3 -> Contains(h, H_ligne)
      [] k = 4 -> h = H_ic \/ h = H_origine
      [] k = 5 -> Contains(h, H_code)
      [] k = 6 -> Contains(h, H_granit)
      [] k = 7 -> Contains(h, H_caractere_grave) \/ Contains(h, H_caractere)
      [] k = 8 -> Contains(h, H_prix)

\* the field of the first rule that matches h, if one matches
FirstRuleFields(h) ==
    {RuleFields[k] : k \in {j \in 1..Len(RuleFields) :
                              /\ RuleMatches(j, h)
                              /\ \A i \in 1..(j - 1) : ~RuleMatches(i, h)}}

\* the fields the headers give a row: one per non-null cell whose header
\* matches a rule
RowFields(sheet, row) ==
    UNION {FirstRuleFields(HeaderText(sheet.header[c])) :
              c \in {d \in 1..Len(row) : ~IsNull(cell_val(row[d]))}}

\* the rows that give an item
ItemRows(sheet) == SelectSeq(sheet.rows, LAMBDA row : RowFields(sheet, row) # {})

\* the row's only non-null cell stands under a header that holds both words
OnlyCellUnder(sheet, row, c, word1, word2) ==
    /\ ~IsNull(cell_val(row[c]))
    /\ \A d \in 1..Len(row) : d # c => IsNull(cell_val(row[d]))
    /\ Contains(HeaderText(sheet.header[c]), word1)
    /\ Contains(HeaderText(sheet.header[c]), word2)

\* C12: in the generic reader a non-null cell sets exactly the field of the
\* first rule, in the order reference, type, ligne, origine, code_granit,
\* granit, prix_caractere_ht, prix_ht, that matches its header, and no other
\* (photo apart, which comes from the reference); a header with prix and
\* caractere sets prix_caractere_ht and not prix_ht, a header with code and
\* granit sets code_granit and not granit.
C12_FirstMatchingRuleOnly ==
    (pc = "generic" /\ Len(ret) = 1) =>
        LET sheet == call[1]
            items == ret[1]
            kept == ItemRows(sheet)
        IN  /\ Len(items) = Len(kept)
            /\ \A i \in 1..Len(kept) :
                  /\ DOMAIN items[i] \ {"photo"} = RowFields(sheet, kept[i])
                  /\ \A c \in 1..Len(kept[i]) :
                        /\ (\/ OnlyCellUnder(sheet, kept[i], c, H_prix, H_caractere)
                            \/ OnlyCellUnder(sheet, kept[i], c, H_prix, H_caractere_grave))
                              => DOMAIN items[i] = {"prix_caractere_ht"}
                        /\ OnlyCellUnder(sheet, kept[i], c, H_code, H_granit)
                              => DOMAIN items[i] = {"code_granit"}

\* a row with 12 under "Prix caractère HT" and 12 under "Code granit" gave an
\* item of exactly prix_caractere_ht and code_granit
C12_Witness ==
    /\ pc = "generic"
    /\ Len(ret) = 1
    /\ Len(ret[1]) >= 1
    /\ HeaderText(call[1].header[1]) =
          <<"p", "r", "i", "x", " ", "c", "a", "r", "a", "c", "t", "e_grave", "r", "e", " ", "h", "t">>
    /\ HeaderText(call[1].header[2]) = <<"c", "o", "d", "e", " ", "g", "r", "a", "n", "i", "t">>
    /\ call[1].rows[1] = <<IntCell(12), IntCell(12)>>
    /\ DOMAIN ret[1][1] = {"prix_caractere_ht", "code_granit"}

\* a header that matches the rules of type and of reference set the reference
C12_WitnessReference ==
    /\ pc = "generic"
    /\ Len(ret) = 1
    /\ Len(ret[1]) >= 1
    /\ Contains(HeaderText(call[1].header[1]), H_type)
    /\ Contains(HeaderText(call[1].header[1]), H_reference_acute)
    /\ call[1].rows[1] = <<TextCell(T_LI1), Null>>
    /\ DOMAIN ret[1][1] = {"reference", "photo"}

----------------------------------------------------------------------------
(* find_photo on bounded photo directories *)

MaxPhotoFiles == 3

T_a == <<"a">>
T_jpg == <<".", "j", "p", "g">>
T_jpeg == <<".", "j", "p", "e", "g">>
T_png == <<".", "p", "n", "g">>

\* file names a directory may hold
PhotoFileNames ==
    {T_a \o T_jpg, T_a \o T_jpeg, T_a \o T_png,
     <<"A", ".", "J", "P", "G">>, <<"A", ".", "j", "p", "g">>, <<"a", ".", "P", "N", "G">>,
     <<"b", ".", "p", "n", "g">>, T_a \o T_jpg \o <<".", "t", "x", "t">>}

\* a case-insensitive file system holds no two names that differ by case only
NamesCanCoexist(names, insensitive) ==
    insensitive => \A x, y \in names : Lower(x) = Lower(y) => x = y

\* photos/lithos is missing, or holds at most MaxPhotoFiles files
LithoPhotoTrees ==
    {[photo_dirs |-> {}, photos |-> {}, case_insensitive |-> ci] : ci \in BOOLEAN}
    \cup
    {[photo_dirs |-> {K_lithos},
      photos |-> {[dir |-> K_lithos, file |-> x] : x \in names},
      case_insensitive |-> ci] :
        ci \in BOOLEAN,
        names \in {S \in SUBSET PhotoFileNames :
                      Cardinality(S) <= MaxPhotoFiles}}

InitPhoto ==
    /\ pc = "photo"
    /\ call \in {[f |-> tree, subdir |-> K_lithos, base_name |-> b] :
                    tree \in {t \in LithoPhotoTrees :
                                 NamesCanCoexist({p.file : p \in t.photos}, t.case_insensitive)},
                    b \in {T_a, <<"A">>, <<"b">>}}
    /\ ret = <<>>
    /\ NoRun

\* photo = find_photo(photos_dir, base_name)
FindPhoto ==
    /\ pc = "photo"
    /\ ret = <<>>
    /\ ret' = <<find_photo(call.f, call.subdir, call.base_name)>>
    /\ UNCHANGED <<pc, call, mainVars>>

SpecPhoto == InitPhoto /\ [][FindPhoto]_vars

\* the directory asked for exists
PhotoDirExists == call.subdir \in call.f.photo_dirs

\* the directory holds a file of exactly this name
StoredExactly(filename) == [dir |-> call.subdir, file |-> filename] \in call.f.photos

\* the directory holds a file of this name, whatever the case of its letters
StoredWhateverCase(filename) ==
    \E p \in call.f.photos : p.dir = call.subdir /\ Lower(p.file) = Lower(filename)

\* find_photo's result is absent when the directory is missing or no file
\* base_name.jpg, base_name.jpeg, base_name.png is there in the sense of
\* There, and else the path of the first of them that is there
FirstPhotoOf(result, There(_)) ==
    LET found == {k \in 1..Len(PhotoExtensions) : There(call.base_name \o PhotoExtensions[k])}
    IN  IF ~PhotoDirExists \/ found = {}
        THEN result = NoPhoto
        ELSE LET first == CHOOSE k \in found : \A j \in found : k <= j
             IN  result = PhotoPath(call.subdir, call.base_name \o PhotoExtensions[first])

\* C13: find_photo returns absent when the directory does not exist or none of
\* base_name.jpg, base_name.jpeg, base_name.png exists in it, and else the path
\* of the first existing one in that order; only an exact-case name matches.
C13_FirstExistingExactCase ==
    (pc = "photo" /\ Len(ret) = 1) => FirstPhotoOf(ret[1], StoredExactly)

\* what find_photo does: on a case-sensitive file system the above, on a
\* case-insensitive one the same with names matched whatever their case
C13_FirstTheFileSystemFinds ==
    (pc = "photo" /\ Len(ret) = 1) =>
        IF call.f.case_insensitive
        THEN FirstPhotoOf(ret[1], StoredWhateverCase)
        ELSE FirstPhotoOf(ret[1], StoredExactly)

\* a.jpg was chosen over a.jpeg and a.png
C13_WitnessOrder ==
    /\ pc = "photo"
    /\ Len(ret) = 1
    /\ StoredExactly(T_a \o T_jpg)
    /\ StoredExactly(T_a \o T_jpeg)
    /\ StoredExactly(T_a \o T_png)
    /\ call.base_name = T_a
    /\ ret[1] = PhotoPath(K_lithos, T_a \o T_jpg)

\* on a case-insensitive file system A.JPG was found for a, and the path
\* returned names a.jpg
C13_WitnessCase ==
    /\ pc = "photo"
    /\ Len(ret) = 1
    /\ call.f.case_insensitive
    /\ call.f.photos = {[dir |-> K_lithos, file |-> <<"A", ".", "J", "P", "G">>]}
    /\ call.base_name = T_a
    /\ ret[1] = PhotoPath(K_lithos, T_a \o T_jpg)

=============================================================================
